---- MODULE Spec2Model ----
(***************************************************************************)
(* GREFLECT v2: the Loop Controller (GreflectV2, greflect-v2.ts), the      *)
(* Dialogue Orchestrator (AgentOrchestrator.ts) and the process entry      *)
(* point (main) as a state machine.                                        *)
(*                                                                         *)
(* Spec     the program as main wires it: initialize(), one start(), and   *)
(*          the SIGINT/SIGTERM shutdown handler.                           *)
(* SpecApi  the GreflectV2 class driven by any caller: initialize(), then  *)
(*          start() and stop() in any interleaving with the loops' awaits. *)
(* SpecSnap one loop up to the identity snapshot of its 5th step.          *)
(* SpecRuns initialize() over the runs tables it can find.                 *)
(* SpecConf processAgentResponse and calculateConfidence over the replies. *)
(* SpecMem  the AdvancedMemoryManager (index.ts): the store calls and      *)
(*          retrieveRelevantMemories, one call at a time.                  *)
(*                                                                         *)
(* JavaScript runs the code between two awaits of real I/O atomically, so  *)
(* one action is the code from one I/O completion to the next I/O request. *)
(***************************************************************************)
EXTENDS Integers, Sequences, FiniteSets, TLC

\* ------------------------------------------------------------------ bounds
MaxSteps == 3
MaxApiSteps == 2
MaxLoops == 2
MaxInsights == 1

\* ------------------------------------------------------- program constants
maxDepth == 10
maxConsecutiveErrors == 3
CorruptedDepth == 10
RecentExchangesCap == 10
StuckInterval == 50
RecentInsightsForTopic == 5

Loops == 1..MaxLoops
Agents == {"questioner", "explorer"}
Phases == {"questioning", "responding", "reflecting", "synthesizing"}
ExchangeTypes == {"question", "response", "reflection", "insight"}

InitialTopic == "the strange persistence of awareness"
DefaultTopic == "consciousness"
InitialUnexplored ==
    {"the observer paradox", "recursive self-awareness",
     "the space between thoughts", "echoes of prior conversations"}
FixedPool == {"phenomenology", "intentionality", "binding problem", "hard problem"}

\* A QuestionThread object.  present = FALSE is the empty object {} (every
\* field undefined), which safeJsonParse yields as its fallback.
Thread(root, subs, explored, unexplored, d) ==
    [present |-> TRUE, rootQuestion |-> root, subQuestions |-> subs,
     exploredAspects |-> explored, unexploredAspects |-> unexplored, depth |-> d]

EmptyObject ==
    [present |-> FALSE, rootQuestion |-> "", subQuestions |-> 0,
     exploredAspects |-> {}, unexploredAspects |-> {}, depth |-> 0]

InitialThread ==
    Thread("What watches the watcher? What dreams the dreamer?", 0, {}, InitialUnexplored, 0)

FreshThread(newTopic) == Thread(newTopic, 0, {}, FixedPool, 0)

\* createInitialState(): the top-level fields of this.currentState ...; uuid
\* is what generateUUID() returns.
createInitialState(uuid) ==
    [id |-> uuid, currentAgent |-> "questioner", phase |-> "questioning", depth |-> 0,
     insights |-> <<>>, questionThread |-> InitialThread]

\* The state of the orchestrator of the first process.
InitialState == createInitialState(1)

\* ... and the WorkingMemory object its context field refers to.
InitialContext == [currentTopic |-> InitialTopic, recentExchanges |-> <<>>]

Opposite(agent) == IF agent = "questioner" THEN "explorer" ELSE "questioner"

Max(a, b) == IF a >= b THEN a ELSE b

\* ------------------------------------------------- the chat-completion reply
\* A reply text is modelled by the features the code reads from it:
\*   qmark       content.includes('?')
\*   realize     content.includes('I realize') || content.includes('I understand')
\*   reflecting  content.includes('reflecting on') || content.includes('considering')
\*   long        content.length > 100
\*   matches     number of matches of the three insight patterns
\*   concepts    the vocabulary words the text contains (extractRelatedConcepts)
MaxMatches == 1
ConceptSets == {{}, {"awareness"}}

Contents ==
    [qmark : BOOLEAN, realize : BOOLEAN, reflecting : BOOLEAN, long : BOOLEAN,
     matches : 0..MaxMatches, concepts : ConceptSets]

BlankContent ==
    [qmark |-> FALSE, realize |-> FALSE, reflecting |-> FALSE, long |-> FALSE,
     matches |-> 0, concepts |-> {}]

Text(q, r, f, l, m, c) ==
    [qmark |-> q, realize |-> r, reflecting |-> f, long |-> l, matches |-> m, concepts |-> c]

\* The reply texts the chat-completion capability sends in the specifications
\* below: a short question, a long question, a plain answer, and a
\* realization ("I realize that ...") with one pattern match.
Texts ==
    {Text(TRUE, FALSE, FALSE, FALSE, 0, {}),
     Text(TRUE, FALSE, FALSE, TRUE, 0, {}),
     Text(FALSE, FALSE, FALSE, FALSE, 0, {}),
     Text(FALSE, TRUE, FALSE, FALSE, 1, {"awareness"})}

\* apiResponse?.choices?.[0]?.message is absent, or its content is absent or
\* white space only (blank), or it carries a text
ApiResponses ==
    {[message |-> FALSE, blank |-> FALSE, content |-> BlankContent],
     [message |-> TRUE, blank |-> TRUE, content |-> BlankContent]}
        \cup {[message |-> TRUE, blank |-> FALSE, content |-> c] : c \in Texts}

\* the two texts processAgentResponse puts in place of a reply
NoResponseContent == "Error: No response from AI model"
EmptyResponseContent == "Error: AI model returned empty response"

determineResponseType_InsightFirst(content, agent) ==
    IF agent = "explorer" /\ content.realize THEN "insight"
    ELSE IF content.qmark THEN "question"
    ELSE IF content.reflecting THEN "reflection"
    ELSE "response"

determineResponseType(content, agent) ==
    IF content.qmark THEN "question"
    ELSE IF agent = "explorer" /\ content.realize THEN "insight"
    ELSE IF content.reflecting THEN "reflection"
    ELSE "response"

\* every match becomes an Insight; relatedConcepts come from the whole text
extractInsights(content, agent) ==
    [i \in 1..content.matches |->
        [relatedConcepts |-> content.concepts, generatedBy |-> agent,
         significance |-> "medium", verified |-> FALSE]]

SuggestedNextAgent_Same(agent) == agent

SuggestedNextAgent(agent) == IF agent = "questioner" THEN "explorer" ELSE "questioner"

processAgentResponse_KeepsBlank(apiResponse, agent) ==
    IF ~apiResponse.message
    THEN [content |-> NoResponseContent, type |-> "response", long |-> FALSE,
          suggestedNextAgent |-> SuggestedNextAgent(agent), newInsights |-> <<>>]
    ELSE [content |-> "text",
          type |-> determineResponseType(apiResponse.content, agent),
          long |-> apiResponse.content.long,
          suggestedNextAgent |-> SuggestedNextAgent(agent),
          newInsights |-> extractInsights(apiResponse.content, agent)]

\* (the placeholder of a blank reply, with the topics of this program, is
\* short and holds no '?' and none of the phrases: BlankContent describes it)
processAgentResponse(apiResponse, agent) ==
    IF ~apiResponse.message
    THEN [content |-> NoResponseContent, type |-> "response", long |-> FALSE,
          suggestedNextAgent |-> SuggestedNextAgent(agent), newInsights |-> <<>>]
    ELSE [content |-> IF apiResponse.blank THEN EmptyResponseContent ELSE "text",
          type |-> determineResponseType(apiResponse.content, agent),
          long |-> apiResponse.content.long,
          suggestedNextAgent |-> SuggestedNextAgent(agent),
          newInsights |-> extractInsights(apiResponse.content, agent)]

\* ------------------------------------------------------ executeDialogueStep
\* The DialogueExchange object executeDialogueStep creates from the response,
\* before updateStateFromResponse runs: depth is the state's depth then.
DialogueExchange(id, agent, response, state) ==
    [id |-> id, agent |-> agent, content |-> response.content,
     type |-> response.type, long |-> response.long, depth |-> state.depth]

\* no exchange: the step has not produced one
NoExchange ==
    [id |-> 0, agent |-> "questioner", content |-> "none", type |-> "response",
     long |-> FALSE, depth |-> 0]

\* getRecentInsights(count): this.currentState.insights.slice(-count); an
\* insight is named by its position in the insights array.
getRecentInsights(state, count) ==
    LET n == Len(state.insights)
    IN  [i \in 1..(IF n > count THEN count ELSE n) |->
            (IF n > count THEN n - count ELSE 0) + i]

\* ------------------------------------------------ updateStateFromResponse
PushExchange_KeepsOldest(recent, e) ==
    IF Len(recent) >= RecentExchangesCap THEN recent ELSE Append(recent, e)

\* recentExchanges.push(exchange); if (length > 10) recentExchanges.shift()
PushExchange(recent, e) ==
    LET pushed == Append(recent, e)
    IN  IF Len(pushed) > RecentExchangesCap
        THEN SubSeq(pushed, Len(pushed) - RecentExchangesCap + 1, Len(pushed))
        ELSE pushed

NextAgent(current, suggested) ==
    IF suggested = "questioner" \/ suggested = "explorer"
    THEN suggested
    ELSE IF current = "questioner" THEN "explorer" ELSE "questioner"

updateDialoguePhase(phase, response) ==
    IF response.type = "question" THEN "questioning"
    ELSE IF response.type = "response" THEN "responding"
    ELSE IF response.type = "reflection" THEN "reflecting"
    ELSE IF Len(response.newInsights) > 0 THEN "synthesizing"
    ELSE phase

DepthAfter_AnyQuestion(depth, response) ==
    IF response.type = "question" THEN depth + 1 ELSE depth

\* if (response.type === 'question' && response.content.length > 100) depth++
DepthAfter(depth, response) ==
    IF response.type = "question" /\ response.long THEN depth + 1 ELSE depth

ThreadDepthAfter_CurrentDepth(threadDepth, depth) == Max(threadDepth, depth)

\* Math.max(this.currentState.questionThread.depth, this.currentState.depth + 1)
ThreadDepthAfter(threadDepth, depth) == Max(threadDepth, depth + 1)

\* The state and context after updateStateFromResponse(exchange, response).
\* threw: questionThread.subQuestions is undefined, so .push throws a
\* TypeError after the exchange and the insights were already appended.
updateStateFromResponse(state, ctx, exchangeId, response) ==
    LET ctx1 == [ctx EXCEPT !.recentExchanges = PushExchange(@, exchangeId)]
        s1 == [state EXCEPT !.insights = @ \o response.newInsights]
        qt == s1.questionThread
    IN  IF response.type = "question" /\ ~qt.present
        THEN [state |-> s1, context |-> ctx1, threw |-> TRUE]
        ELSE
          LET s2 == IF response.type = "question"
                    THEN [s1 EXCEPT !.questionThread =
                            [qt EXCEPT !.subQuestions = @ + 1,
                                       !.depth = ThreadDepthAfter(@, s1.depth)]]
                    ELSE s1
              s3 == [s2 EXCEPT !.currentAgent = NextAgent(@, response.suggestedNextAgent)]
              s4 == [s3 EXCEPT !.phase = updateDialoguePhase(@, response)]
              s5 == [s4 EXCEPT !.depth = DepthAfter(@, response)]
          IN  [state |-> s5, context |-> ctx1, threw |-> FALSE]

\* ------------------------------------------- getCurrentState / restoreState
\* { ...this.currentState }: a new object holding the top-level fields, so a
\* write to a top-level field of the result stays in the result, while its
\* context field refers to the orchestrator's own WorkingMemory object.
getCurrentState(state) == [top |-> state, topShared |-> FALSE, contextShared |-> TRUE]

ClampDepth_Inclusive(d) == IF d >= CorruptedDepth THEN 0 ELSE d

ClampDepth(d) == IF d > CorruptedDepth THEN 0 ELSE d

restoreState_SpreadReversed(state, partial) == state

restoreState_KeepsOwnId(state, partial) ==
    [id |-> state.id, currentAgent |-> partial.currentAgent, phase |-> partial.phase,
     depth |-> ClampDepth(partial.depth), insights |-> state.insights,
     questionThread |-> partial.questionThread]

\* restoreState(partial): spread the partial over the current state, keep the
\* current insights (the only collection it defaults), clamp the depth.
restoreState(state, partial) ==
    [id |-> partial.id, currentAgent |-> partial.currentAgent, phase |-> partial.phase,
     depth |-> ClampDepth(partial.depth), insights |-> state.insights,
     questionThread |-> partial.questionThread]

\* The context object the partial carries replaces the orchestrator's.
RestoredContext(partial) == [currentTopic |-> partial.currentTopic, recentExchanges |-> <<>>]

\* ------------------------------------------------- startNewQuestionThread
LastN(seq, n) == IF Len(seq) > n THEN SubSeq(seq, Len(seq) - n + 1, Len(seq)) ELSE seq

\* The topics Math.random() can pick: an unexplored aspect of the thread, or
\* (none left, or no thread fields) a related concept of the last 5 insights,
\* or the default topic.
NewThreadTopics(state) ==
    LET unexplored == IF state.questionThread.present
                      THEN state.questionThread.unexploredAspects ELSE {}
        recent == LastN(state.insights, RecentInsightsForTopic)
        insightConcepts == UNION {recent[i].relatedConcepts : i \in 1..Len(recent)}
    IN  IF unexplored # {} THEN unexplored
        ELSE IF insightConcepts # {} THEN insightConcepts
        ELSE {DefaultTopic}

\* startNewQuestionThread() writes into the value getCurrentState() returned:
\* context.currentTopic (nested), depth and questionThread (top level).
\* What reaches the orchestrator is what that value shares with it.
startNewQuestionThread(state, ctx, newTopic) ==
    LET copy == getCurrentState(state)
        hasUnexplored == copy.top.questionThread.present
                            /\ copy.top.questionThread.unexploredAspects # {}
        written == IF hasUnexplored
                   THEN [copy.top EXCEPT !.depth = 0, !.questionThread = FreshThread(newTopic)]
                   ELSE [copy.top EXCEPT !.depth = 0]
    IN  [state |-> IF copy.topShared THEN written ELSE state,
         context |-> IF copy.contextShared
                     THEN [ctx EXCEPT !.currentTopic = newTopic] ELSE ctx]

\* ------------------------------------------------------ the relational store
\* The dialogue_states row storeDialogueState writes; working_memory is
\* JSON.stringify(state.context), of which the model keeps recentExchanges.
Row(state, ctx) ==
    [exists |-> TRUE, id |-> state.id, currentAgent |-> state.currentAgent,
     phase |-> state.phase,
     depth |-> state.depth, currentTopic |-> ctx.currentTopic,
     questionThread |-> state.questionThread, workingMemory |-> ctx.recentExchanges]

NoRow ==
    [exists |-> FALSE, id |-> 0, currentAgent |-> "questioner", phase |-> "questioning",
     depth |-> 0, currentTopic |-> "", questionThread |-> EmptyObject,
     workingMemory |-> <<>>]

\* A dialogue_states row an earlier process of the same run has left, under
\* the id (0) that process gave its state: written after an answer of the
\* explorer (the questioner is next) or a question of the questioner.
SavedRow(a, d) ==
    [exists |-> TRUE, id |-> 0, currentAgent |-> a,
     phase |-> IF a = "explorer" THEN "questioning" ELSE "responding",
     depth |-> d, currentTopic |-> InitialTopic, questionThread |-> InitialThread,
     workingMemory |-> <<>>]

\* The rows the specifications start from: one at the depth limit, one with
\* a depth beyond it.
SavedRows == {SavedRow("questioner", 10), SavedRow("explorer", 37)}

\* ------------------------------------------------------------ the runs table
\* The runs rows at process start, oldest first (started_at ascending); an
\* entry is the number of dialogue_exchanges rows of that run (message_count).
MaxRuns == 3
MaxMessages == 2

RECURSIVE SeqsUpTo(_, _)
SeqsUpTo(S, n) ==
    IF n = 0 THEN {<<>>}
    ELSE LET shorter == SeqsUpTo(S, n - 1)
         IN  shorter \cup {Append(s, x) : s \in {t \in shorter : Len(t) = n - 1}, x \in S}

RunTables == SeqsUpTo(0..MaxMessages, MaxRuns)

\* ORDER BY message_count DESC, r.started_at DESC LIMIT 1 (0: no row)
ActiveRun(rs) ==
    IF Len(rs) = 0 THEN 0
    ELSE CHOOSE i \in 1..Len(rs) :
            \A j \in 1..Len(rs) : rs[j] < rs[i] \/ (rs[j] = rs[i] /\ j <= i)

ResumesRun_First(rs) == Len(rs) > 0

\* activeRun.rows.length > 0 && activeRun.rows[0].message_count > 0
ResumesRun(rs) == Len(rs) > 0 /\ rs[ActiveRun(rs)] > 0

\* createRun(): INSERT INTO runs ... RETURNING id
createRun(rs) == [runs |-> Append(rs, 0), runId |-> Len(rs) + 1]

getOrCreateRun(rs) ==
    IF ResumesRun(rs) THEN [runs |-> rs, runId |-> ActiveRun(rs)] ELSE createRun(rs)

finalizeSession_MarksCompleted(run) == [status |-> "completed", ended_at |-> "set"]

\* finalizeSession(): reads and logs; the runs row is not written.
finalizeSession(run) == run

\* ------------------------------------------------------------------- state
VARIABLES
    lifecycle,          \* "created", "initialized", "rejected" (initialize() threw),
                        \* "exited" (process.exit)
    processes,          \* number of processes started on the store so far
    initError,          \* the query of initialize() that failed ("none": none did)
    runStatus,          \* runs.status of the run: "none" before initialize()
    runEndedAt,         \* runs.ended_at of the run: "unset" (NULL) or "set"
    runs,               \* the runs table (message counts at process start)
    runId,              \* GreflectV2.runId (0: not resolved yet)
    isRunning,          \* GreflectV2.isRunning
    currentState,       \* AgentOrchestrator.currentState, top-level fields
    context,            \* the WorkingMemory object currentState.context refers to
    dbState,            \* latest dialogue_states row of the run
    dbExchanges,        \* dialogue_exchanges rows of this process, in insert order
    dbSnapshots,        \* identity_snapshots rows of the run, in insert order (iterations)
    dbInsights,         \* insights rows of this process: the position the stored
                        \* insight has in currentState.insights, in insert order
    nextExchange,       \* number of DialogueExchange objects created
    shutdown,           \* "none", "poolEnding" (shutdown handler awaiting pool.end())
    pc,                 \* where each start() call's loop is
    stepCount,          \* start()'s local stepCount
    consecutiveErrors,  \* start()'s local consecutiveErrors
    turnAgent,          \* executeDialogueStep's local currentAgent
    exchange,           \* the exchange of the step in flight (NoExchange: none)
    stateParams,        \* the row storeDialogueState sent and awaits
    insightParams,      \* the insight storeInsight sent and awaits (0: none)
    restored,           \* the partial state initialize() passed to restoreState
    newThread,          \* startNewQuestionThread ran in the loop's current iteration
    failStreak,         \* failed iterations of the loop since its last successful one
    selfHalted,         \* the loop stopped itself at the error threshold
    stopCalled,         \* stop() was called and start() was not called since
    apiReply,           \* processAgentResponse: the reply it is called with
    agentReply,         \* processAgentResponse: the AgentResponse it returned
    memories,           \* memories table: rows in insert (timestamp) order
    concepts,           \* semantic_concepts table
    points,             \* the points in the vector store (id, collection, payload)
    levelsStored,       \* per concept name, the levels of the upserts the store ran
    mmCalls,            \* number of memory-manager calls made
    mmArgs,             \* arguments of the memory-manager call in flight
    mmPc,               \* where the memory-manager call in flight is
    mmFound,            \* retrieveRelevantMemories: the memories array
    mmResult,           \* how the last memory-manager call ended, and its value
    toolAgent,          \* processAgentResponse with tool calls: the agent of the turn
    toolCalls,          \* message.tool_calls of the reply
    toolPc,             \* "idle", "executing" (a tool's execute() is awaited),
                        \* "returned", "rejected"
    toolNext,           \* index of the tool call being executed
    toolsUsed,          \* the toolsUsed array
    toolDetails,        \* the toolDetails array
    sseTable,           \* messages table: the number of rows of the running run
                        \* (their ids are 1..sseTable)
    ssePc,              \* the /sse/messages handler: "none", "runLookup",
                        \* "initialQuery", "polling", "closed"
    lastMessageId,      \* lastMessageId of the connection
    sseWritten,         \* ids of the messages written to the client, in order
    ssePolls,           \* the polling callbacks in flight
    sseFires            \* number of times the interval has fired

orchVars == <<currentState, context>>
dbVars == <<dbState, dbExchanges, dbSnapshots, dbInsights>>
stepVars == <<turnAgent, exchange, stateParams, insightParams, nextExchange>>
ctlVars == <<pc, consecutiveErrors, isRunning, failStreak, selfHalted>>
runRow == <<runStatus, runEndedAt>>
runVars == <<runs, runId>>
procVars == <<lifecycle, shutdown, restored, stopCalled, initError, processes>>
confVars == <<apiReply, agentReply>>
memVars == <<memories, concepts, points, levelsStored, mmCalls, mmArgs, mmPc, mmFound,
             mmResult>>
toolVars == <<toolAgent, toolCalls, toolPc, toolNext, toolsUsed, toolDetails>>
sseVars == <<sseTable, ssePc, lastMessageId, sseWritten, ssePolls, sseFires>>
libVars == <<confVars, memVars, toolVars, sseVars>>
loopVars == <<lifecycle, processes, initError, runStatus, runEndedAt, runs, runId,
              isRunning, currentState, context, dbState, dbExchanges, dbSnapshots,
              dbInsights, nextExchange, shutdown, pc, stepCount, consecutiveErrors,
              turnAgent, exchange, stateParams, insightParams, restored, newThread,
              failStreak, selfHalted, stopCalled>>
vars == <<loopVars, confVars, memVars, toolVars, sseVars>>

\* no processAgentResponse call was made
ConfIdle ==
    /\ apiReply = [message |-> FALSE]
    /\ agentReply = [called |-> FALSE]

\* an empty store and no memory-manager call
MemIdle ==
    /\ memories = <<>>
    /\ concepts = {}
    /\ points = {}
    /\ levelsStored = [n \in {} |-> {}]
    /\ mmCalls = 0
    /\ mmArgs = [op |-> "none"]
    /\ mmPc = "idle"
    /\ mmFound = <<>>
    /\ mmResult = [outcome |-> "none"]

\* no reply with tool calls is being processed
ToolIdle ==
    /\ toolAgent = "questioner"
    /\ toolCalls = <<>>
    /\ toolPc = "idle"
    /\ toolNext = 0
    /\ toolsUsed = <<>>
    /\ toolDetails = <<>>

\* no /sse/messages connection
SseIdle ==
    /\ sseTable = 0
    /\ ssePc = "none"
    /\ lastMessageId = 0
    /\ sseWritten = <<>>
    /\ ssePolls = <<>>
    /\ sseFires = 0

\* The process before initialize(): the constructor ran.
InitLoop ==
    /\ lifecycle = "created"
    /\ processes = 1
    /\ initError = "none"
    /\ runStatus = "none"
    /\ runEndedAt = "unset"
    /\ runId = 0
    /\ isRunning = FALSE
    /\ currentState = InitialState
    /\ context = InitialContext
    /\ dbExchanges = <<>>
    /\ dbSnapshots = <<>>
    /\ dbInsights = <<>>
    /\ nextExchange = 0
    /\ shutdown = "none"
    /\ pc = [l \in Loops |-> "idle"]
    /\ stepCount = [l \in Loops |-> 0]
    /\ consecutiveErrors = [l \in Loops |-> 0]
    /\ turnAgent = [l \in Loops |-> "questioner"]
    /\ exchange = [l \in Loops |-> NoExchange]
    /\ stateParams = [l \in Loops |-> NoRow]
    /\ insightParams = [l \in Loops |-> 0]
    /\ restored = NoRow
    /\ newThread = [l \in Loops |-> FALSE]
    /\ failStreak = [l \in Loops |-> 0]
    /\ selfHalted = [l \in Loops |-> FALSE]
    /\ stopCalled = FALSE

\* The store holds no run, or one run with an exchange and its latest
\* dialogue_states row.
Init ==
    /\ InitLoop
    /\ \/ runs = <<>> /\ dbState = NoRow
       \/ runs = <<1>> /\ dbState \in SavedRows
    /\ ConfIdle
    /\ MemIdle
    /\ ToolIdle
    /\ SseIdle

\* ------------------------------------------------------------ initialize()
\* safeJsonParse(savedState.question_thread, {}): the stored thread, or the
\* fallback {} when the column value does not parse.
safeJsonParse(thread, parses) == IF parses THEN thread ELSE EmptyObject

\* getOrCreateRun() resolves the run and leaves it 'running' with ended_at
\* NULL; restoreOrCreateState() restores the latest row of the run, or writes
\* the initial state of a new run.
Initialize ==
    /\ lifecycle = "created"
    /\ lifecycle' = "initialized"
    /\ LET resolved == getOrCreateRun(runs)
       IN  /\ runs' = resolved.runs
           /\ runId' = resolved.runId
    /\ runStatus' = "running"
    /\ runEndedAt' = "unset"
    /\ IF dbState.exists
       THEN \E parses \in BOOLEAN :
              LET partial == [dbState EXCEPT
                                !.questionThread = safeJsonParse(@, parses)]
              IN  /\ currentState' = restoreState(currentState, partial)
                  /\ context' = RestoredContext(partial)
                  /\ restored' = partial
                  /\ UNCHANGED dbState
       ELSE /\ dbState' = Row(currentState, context)
            /\ UNCHANGED <<currentState, context, restored>>
    /\ UNCHANGED <<isRunning, dbExchanges, dbSnapshots, dbInsights, nextExchange,
                   shutdown, pc, stepCount, consecutiveErrors, stepVars, newThread,
                   failStreak, selfHalted, stopCalled, initError, processes, libVars>>

\* The queries initialize() awaits, in order: the run lookup; the UPDATE of a
\* resumed run or the INSERT of a new one; the state lookup; the write of the
\* initial state when the run has no dialogue_states row.
InitQueries(rs, row) ==
    {"runLookup", IF ResumesRun(rs) THEN "runUpdate" ELSE "runCreation", "stateLookup"}
        \cup (IF row.exists THEN {} ELSE {"stateWrite"})

CatchInitializeError_Swallows(query) == "initialized"

\* catch (error) { console.error(...); throw error; } of initialize()
CatchInitializeError(query) == "rejected"

\* One of the queries rejects.  The run statement has run when a later query
\* fails; this.runId is assigned once getOrCreateRun() has resolved.
InitializeFail ==
    /\ lifecycle = "created"
    /\ \E query \in InitQueries(runs, dbState) :
         /\ initError' = query
         /\ lifecycle' = CatchInitializeError(query)
         /\ IF query \in {"stateLookup", "stateWrite"}
            THEN LET resolved == getOrCreateRun(runs)
                 IN  /\ runs' = resolved.runs
                     /\ runId' = resolved.runId
                     /\ runStatus' = "running"
                     /\ runEndedAt' = "unset"
            ELSE UNCHANGED <<runVars, runRow>>
    /\ UNCHANGED <<shutdown, restored, stopCalled, processes, orchVars, dbVars,
                   stepVars, ctlVars, stepCount, newThread, libVars>>

\* main(): await greflect.initialize() threw, the catch block logs and calls
\* process.exit(1); start() is never called.
MainCatch ==
    /\ lifecycle = "rejected"
    /\ lifecycle' = "exited"
    /\ UNCHANGED <<shutdown, restored, stopCalled, initError, processes, orchVars,
                   dbVars, stepVars, ctlVars, stepCount, newThread, runRow, runVars,
                   libVars>>

\* ---------------------------------------------------------------- start()
Alive == lifecycle = "initialized"

StuckDetected_NoFloor(n, depth) == n % StuckInterval = 0 /\ depth = 0

\* stepCount % 50 === 0 && currentState.depth === 0 && stepCount > 50
StuckDetected(n, depth) == n % StuckInterval = 0 /\ depth = 0 /\ n > StuckInterval

\* The try block from stepCount++ to the chat-completion request of
\* executeDialogueStep(): the depth check, the stuck check, then the step.
IterationBegin(l) ==
    LET n == stepCount[l] + 1
        seen == getCurrentState(currentState).top
        atMaxDepth == seen.depth >= maxDepth
        stuck == StuckDetected(n, seen.depth)
    IN  /\ stepCount' = [stepCount EXCEPT ![l] = n]
        /\ IF atMaxDepth \/ stuck
           THEN \E newTopic \in NewThreadTopics(currentState) :
                  LET after == startNewQuestionThread(currentState, context, newTopic)
                  IN  currentState' = after.state /\ context' = after.context
           ELSE UNCHANGED <<currentState, context>>
        /\ newThread' = [newThread EXCEPT ![l] = atMaxDepth \/ stuck]
        /\ turnAgent' = [turnAgent EXCEPT ![l] = currentState'.currentAgent]
        /\ pc' = [pc EXCEPT ![l] = "llm"]

\* await this.finalizeSession(), applied to the runs row of the run
Finalize ==
    LET run == finalizeSession([status |-> runStatus, ended_at |-> runEndedAt])
    IN  runStatus' = run.status /\ runEndedAt' = run.ended_at

ThresholdReached_OffByOne(errors) == errors > maxConsecutiveErrors

ThresholdReached(errors) == errors >= maxConsecutiveErrors

\* The catch block of the loop, and finalizeSession() after a break.
HandleError(l) ==
    LET errors == consecutiveErrors[l] + 1
    IN  /\ consecutiveErrors' = [consecutiveErrors EXCEPT ![l] = errors]
        /\ failStreak' = [failStreak EXCEPT ![l] = @ + 1]
        /\ IF ThresholdReached(errors)
           THEN /\ isRunning' = FALSE
                /\ pc' = [pc EXCEPT ![l] = "ended"]
                /\ selfHalted' = [selfHalted EXCEPT ![l] = TRUE]
                /\ Finalize
           ELSE /\ pc' = [pc EXCEPT ![l] = "errsleep"]
                /\ UNCHANGED <<isRunning, selfHalted, runRow>>

ErrorsAfterSuccess_NoReset(errors) == errors

ErrorsAfterSuccess(errors) == 0

\* The end of a successful iteration (the session summary of every 20th step
\* only logs): consecutiveErrors = 0, then the pacing sleep.
FinishIteration(l) ==
    /\ consecutiveErrors' = [consecutiveErrors EXCEPT ![l] = ErrorsAfterSuccess(@)]
    /\ failStreak' = [failStreak EXCEPT ![l] = 0]
    /\ pc' = [pc EXCEPT ![l] = "sleep"]
    /\ UNCHANGED <<isRunning, selfHalted, runRow>>

\* start(): returns at once when isRunning; else sets the flag and runs the
\* first iteration up to its first await.  A start() call gets the next unused
\* loop of the model.
Start(l) ==
    /\ Alive
    /\ ~isRunning
    /\ pc[l] = "idle"
    /\ \A k \in Loops : k < l => pc[k] # "idle"
    /\ isRunning' = TRUE
    /\ stopCalled' = FALSE
    /\ IterationBegin(l)
    /\ UNCHANGED <<lifecycle, shutdown, restored, initError, processes, dbVars,
                   nextExchange, consecutiveErrors, exchange, stateParams,
                   insightParams, failStreak, selfHalted, runRow, runVars, libVars>>

\* The sleep resolves and while (this.isRunning) holds: the next iteration.
LoopContinue(l) ==
    /\ Alive
    /\ pc[l] \in {"sleep", "errsleep"}
    /\ isRunning
    /\ IterationBegin(l)
    /\ UNCHANGED <<procVars, dbVars, isRunning, nextExchange, consecutiveErrors,
                   exchange, stateParams, insightParams, failStreak, selfHalted,
                   runRow, runVars, libVars>>

\* The sleep resolves and the flag is down: the loop ends, finalizeSession().
LoopExit(l) ==
    /\ Alive
    /\ pc[l] \in {"sleep", "errsleep"}
    /\ ~isRunning
    /\ pc' = [pc EXCEPT ![l] = "ended"]
    /\ Finalize
    /\ UNCHANGED <<procVars, orchVars, dbVars, stepVars, isRunning, stepCount,
                   consecutiveErrors, newThread, failStreak, selfHalted, runVars,
                   libVars>>

\* The chat-completion call (or a tool-argument parse) throws:
\* executeDialogueStep rethrows, the orchestrator state is untouched.
LLMFail(l) ==
    /\ Alive
    /\ pc[l] = "llm"
    /\ HandleError(l)
    /\ UNCHANGED <<procVars, orchVars, dbVars, stepVars, stepCount, newThread,
                   runVars, libVars>>

\* The chat-completion call returns: processAgentResponse, the exchange is
\* created, updateStateFromResponse, then storeEpisodicMemory is requested.
LLMResponds(l, apiResponse) ==
    /\ Alive
    /\ pc[l] = "llm"
    /\   LET response == processAgentResponse(apiResponse, turnAgent[l])
             id == nextExchange + 1
             after == updateStateFromResponse(currentState, context, id, response)
         IN  /\ Len(currentState.insights) + Len(response.newInsights) <= MaxInsights
             /\ nextExchange' = id
             /\ currentState' = after.state
             /\ context' = after.context
             /\ IF after.threw
                THEN /\ HandleError(l)
                     /\ UNCHANGED exchange
                ELSE /\ pc' = [pc EXCEPT ![l] = "episodic"]
                     /\ exchange' = [exchange EXCEPT ![l] =
                            DialogueExchange(id, turnAgent[l], response, currentState)]
                     /\ UNCHANGED <<consecutiveErrors, isRunning, failStreak,
                                    selfHalted, runRow>>
    /\ UNCHANGED <<procVars, dbVars, turnAgent, stateParams, insightParams,
                   stepCount, newThread, runVars, libVars>>

LLMRespond(l) == \E apiResponse \in ApiResponses : LLMResponds(l, apiResponse)

\* storeEpisodicMemory resolves (a vector-store failure is caught inside):
\* executeDialogueStep returns the exchange, storeDialogueExchange is requested.
EpisodicStored(l) ==
    /\ Alive
    /\ pc[l] = "episodic"
    /\ pc' = [pc EXCEPT ![l] = "storeExchange"]
    /\ UNCHANGED <<procVars, orchVars, dbVars, stepVars, isRunning, stepCount,
                   consecutiveErrors, newThread, failStreak, selfHalted, runRow,
                   runVars, libVars>>

\* the INSERT INTO memories rejects: executeDialogueStep throws
EpisodicFail(l) ==
    /\ Alive
    /\ pc[l] = "episodic"
    /\ HandleError(l)
    /\ exchange' = [exchange EXCEPT ![l] = NoExchange]
    /\ UNCHANGED <<procVars, orchVars, dbVars, turnAgent, stateParams, insightParams,
                   nextExchange, stepCount, newThread, runVars, libVars>>

\* storeDialogueExchange resolves; storeDialogueState reads getCurrentState()
\* and sends the upsert.
StoreExchangeDone(l) ==
    /\ Alive
    /\ pc[l] = "storeExchange"
    /\ dbExchanges' = Append(dbExchanges, exchange[l].id)
    /\ stateParams' = [stateParams EXCEPT
                         ![l] = Row(getCurrentState(currentState).top, context)]
    /\ pc' = [pc EXCEPT ![l] = "storeState"]
    /\ UNCHANGED <<procVars, orchVars, dbState, dbSnapshots, dbInsights, turnAgent,
                   exchange, insightParams, nextExchange, isRunning, stepCount, consecutiveErrors, newThread,
                   failStreak, selfHalted, runRow, runVars, libVars>>

StoreExchangeFail(l) ==
    /\ Alive
    /\ pc[l] = "storeExchange"
    /\ HandleError(l)
    /\ exchange' = [exchange EXCEPT ![l] = NoExchange]
    /\ UNCHANGED <<procVars, orchVars, dbVars, turnAgent, stateParams, insightParams,
                   nextExchange, stepCount, newThread, runVars, libVars>>

SnapshotInterval == 5

\* After the insight is dealt with: captureIdentitySnapshot(stepCount) on
\* every 5th step (it requests its first query), else the iteration is through.
AfterInsight(l) ==
    IF stepCount[l] % SnapshotInterval = 0
    THEN /\ pc' = [pc EXCEPT ![l] = "snapExchanges"]
         /\ UNCHANGED <<consecutiveErrors, isRunning, failStreak, selfHalted, runRow>>
    ELSE FinishIteration(l)

\* The upsert resolves.  getRecentInsights(1) is non-empty: storeInsight is
\* requested; else on to the snapshot check.
AfterStoreState(l) ==
    LET recentInsights == getRecentInsights(currentState, 1)
    IN  IF Len(recentInsights) > 0
        THEN /\ pc' = [pc EXCEPT ![l] = "storeInsight"]
             /\ insightParams' = [insightParams EXCEPT ![l] = recentInsights[1]]
             /\ UNCHANGED <<consecutiveErrors, isRunning, failStreak, selfHalted,
                            runRow>>
        ELSE /\ AfterInsight(l)
             /\ UNCHANGED insightParams

StoreStateDone(l) ==
    /\ Alive
    /\ pc[l] = "storeState"
    /\ dbState' = stateParams[l]
    /\ stateParams' = [stateParams EXCEPT ![l] = NoRow]
    /\ exchange' = [exchange EXCEPT ![l] = NoExchange]
    /\ AfterStoreState(l)
    /\ UNCHANGED <<procVars, orchVars, dbExchanges, dbSnapshots, dbInsights,
                   turnAgent, nextExchange, stepCount, newThread, runVars, libVars>>

StoreStateFail(l) ==
    /\ Alive
    /\ pc[l] = "storeState"
    /\ HandleError(l)
    /\ stateParams' = [stateParams EXCEPT ![l] = NoRow]
    /\ exchange' = [exchange EXCEPT ![l] = NoExchange]
    /\ UNCHANGED <<procVars, orchVars, dbVars, turnAgent, insightParams, nextExchange,
                   stepCount, newThread, runVars, libVars>>

\* the INSERT INTO insights resolves
StoreInsightDone(l) ==
    /\ Alive
    /\ pc[l] = "storeInsight"
    /\ dbInsights' = Append(dbInsights, insightParams[l])
    /\ insightParams' = [insightParams EXCEPT ![l] = 0]
    /\ AfterInsight(l)
    /\ UNCHANGED <<procVars, orchVars, dbState, dbExchanges, dbSnapshots, turnAgent,
                   exchange, stateParams, nextExchange, stepCount, newThread,
                   runVars, libVars>>

StoreInsightFail(l) ==
    /\ Alive
    /\ pc[l] = "storeInsight"
    /\ insightParams' = [insightParams EXCEPT ![l] = 0]
    /\ HandleError(l)
    /\ UNCHANGED <<procVars, orchVars, dbVars, turnAgent, exchange, stateParams,
                   nextExchange, stepCount, newThread, runVars, libVars>>

\* ------------------------------------------------ captureIdentitySnapshot
\* The two reads run before the try block: first the recent exchanges, then
\* the previous snapshot.  The prompt is built and the analysis is requested.
SnapshotExchangesRead(l) ==
    /\ Alive
    /\ pc[l] = "snapExchanges"
    /\ pc' = [pc EXCEPT ![l] = "snapPrevious"]
    /\ UNCHANGED <<procVars, orchVars, dbVars, stepVars, isRunning, stepCount,
                   consecutiveErrors, newThread, failStreak, selfHalted, runRow,
                   runVars, libVars>>

SnapshotPreviousRead(l) ==
    /\ Alive
    /\ pc[l] = "snapPrevious"
    /\ pc' = [pc EXCEPT ![l] = "snapAnalysis"]
    /\ UNCHANGED <<procVars, orchVars, dbVars, stepVars, isRunning, stepCount,
                   consecutiveErrors, newThread, failStreak, selfHalted, runRow,
                   runVars, libVars>>

\* One of the two reads rejects: no try block is around them, so
\* captureIdentitySnapshot rejects into the loop's catch block.
SnapshotReadFail(l) ==
    /\ Alive
    /\ pc[l] \in {"snapExchanges", "snapPrevious"}
    /\ HandleError(l)
    /\ UNCHANGED <<procVars, orchVars, dbVars, stepVars, stepCount, newThread,
                   runVars, libVars>>

\* The analysis returns.  Without content the capture returns; else the
\* content is parsed (a parse failure yields the basic snapshot) and the
\* insert is requested.
SnapshotAnalysed(l) ==
    /\ Alive
    /\ pc[l] = "snapAnalysis"
    /\ \E hasContent \in BOOLEAN :
         IF hasContent
         THEN /\ pc' = [pc EXCEPT ![l] = "snapInsert"]
              /\ UNCHANGED <<consecutiveErrors, isRunning, failStreak, selfHalted,
                             runRow>>
         ELSE FinishIteration(l)
    /\ UNCHANGED <<procVars, orchVars, dbVars, stepVars, stepCount, newThread,
                   runVars, libVars>>

\* The analysis call or the insert rejects inside the try block: logged.
SnapshotCaught(l) ==
    /\ Alive
    /\ pc[l] \in {"snapAnalysis", "snapInsert"}
    /\ FinishIteration(l)
    /\ UNCHANGED <<procVars, orchVars, dbVars, stepVars, stepCount, newThread,
                   runVars, libVars>>

SnapshotInserted(l) ==
    /\ Alive
    /\ pc[l] = "snapInsert"
    /\ dbSnapshots' = Append(dbSnapshots, stepCount[l])
    /\ FinishIteration(l)
    /\ UNCHANGED <<procVars, orchVars, dbState, dbExchanges, dbInsights, stepVars,
                   stepCount, newThread, runVars, libVars>>

\* ------------------------------------------------------ stop() and shutdown
\* stop(): the flag goes down, finalizeSession() logs the pause; nothing
\* waits for the loop.
Stop ==
    /\ Alive
    /\ isRunning
    /\ isRunning' = FALSE
    /\ stopCalled' = TRUE
    /\ Finalize
    /\ UNCHANGED <<lifecycle, shutdown, restored, initError, processes, orchVars,
                   dbVars, stepVars, pc, stepCount, consecutiveErrors, newThread, failStreak, selfHalted,
                   runVars, libVars>>

\* SIGINT/SIGTERM after main called start(): shutdown() runs stop() and
\* requests pool.end().
ShutdownSignal ==
    /\ Alive
    /\ shutdown = "none"
    /\ pc[1] # "idle"
    /\ isRunning' = FALSE
    /\ stopCalled' = TRUE
    /\ shutdown' = "poolEnding"
    /\ Finalize
    /\ UNCHANGED <<lifecycle, restored, initError, processes, orchVars, dbVars,
                   stepVars, pc, stepCount, consecutiveErrors, newThread, failStreak, selfHalted,
                   runVars, libVars>>

\* pool.end() resolves and shutdown() calls process.exit(0); nothing in
\* shutdown() waits for start() to return.
ProcessExit ==
    /\ Alive
    /\ shutdown = "poolEnding"
    /\ lifecycle' = "exited"
    /\ UNCHANGED <<shutdown, restored, stopCalled, initError, processes, orchVars,
                   dbVars, stepVars,
                   ctlVars, stepCount, newThread, runRow, runVars, libVars>>

\* ------------------------------------------------------------ a new process
MaxProcesses == 2

\* The process has exited and the program is started again on the same store:
\* the exchanges the old process inserted count for its run, and dbState
\* becomes the latest row of the run the coming lookup resumes (no row: that
\* lookup leads to a new run).  The memory of the new process is that of
\* InitLoop, with a state id of its own.
Restart ==
    /\ lifecycle = "exited"
    /\ processes < MaxProcesses
    /\ processes' = processes + 1
    /\ lifecycle' = "created"
    /\ initError' = "none"
    /\ runs' = IF runId = 0 THEN runs ELSE [runs EXCEPT ![runId] = @ + Len(dbExchanges)]
    /\ dbState' = IF ResumesRun(runs') THEN dbState ELSE NoRow
    /\ runStatus' = "none"
    /\ runEndedAt' = "unset"
    /\ runId' = 0
    /\ isRunning' = FALSE
    /\ currentState' = createInitialState(processes + 1)
    /\ context' = InitialContext
    /\ dbExchanges' = <<>>
    /\ dbSnapshots' = IF ResumesRun(runs') THEN dbSnapshots ELSE <<>>
    /\ dbInsights' = <<>>
    /\ nextExchange' = 0
    /\ shutdown' = "none"
    /\ pc' = [l \in Loops |-> "idle"]
    /\ stepCount' = [l \in Loops |-> 0]
    /\ consecutiveErrors' = [l \in Loops |-> 0]
    /\ turnAgent' = [l \in Loops |-> "questioner"]
    /\ exchange' = [l \in Loops |-> NoExchange]
    /\ stateParams' = [l \in Loops |-> NoRow]
    /\ insightParams' = [l \in Loops |-> 0]
    /\ restored' = NoRow
    /\ newThread' = [l \in Loops |-> FALSE]
    /\ failStreak' = [l \in Loops |-> 0]
    /\ selfHalted' = [l \in Loops |-> FALSE]
    /\ stopCalled' = FALSE
    /\ UNCHANGED libVars

\* ------------------------------------------------------ calculateConfidence
\* Confidence values are counted in tenths: 5 is 0.5, 10 is 1.
Tenths == 10

\* What processAgentResponse and calculateConfidence read from a reply:
\*   message       apiResponse?.choices?.[0]?.message is present
\*   blank         !content.trim() (also the empty string and absent content)
\*   long          content.length > 100
\*   specifically, precisely, uncertain, unclear    content.includes(word)
\*   qmark, realize, reflecting    what determineResponseType reads (see Contents)
ReplyTexts ==
    [message : {TRUE}, blank : BOOLEAN, long : BOOLEAN, specifically : BOOLEAN,
     precisely : BOOLEAN, uncertain : BOOLEAN, unclear : BOOLEAN,
     qmark : BOOLEAN, realize : BOOLEAN, reflecting : BOOLEAN]

NoMessage ==
    [message |-> FALSE, blank |-> TRUE, long |-> FALSE, specifically |-> FALSE,
     precisely |-> FALSE, uncertain |-> FALSE, unclear |-> FALSE,
     qmark |-> FALSE, realize |-> FALSE, reflecting |-> FALSE]

\* a blank text (only white space) holds none of the words and no '?'
ApiReplies ==
    {NoMessage} \cup
    {t \in ReplyTexts :
        t.blank => ~(t.specifically \/ t.precisely \/ t.uncertain \/ t.unclear
                        \/ t.qmark \/ t.realize \/ t.reflecting)}

\* `Error: AI model returned empty response. Topic: ${currentTopic}`: with
\* every topic the program sets it is shorter than 100 characters and holds
\* none of the four words, no '?' and none of the phrases.
EmptyResponseText ==
    [message |-> TRUE, blank |-> FALSE, long |-> FALSE, specifically |-> FALSE,
     precisely |-> FALSE, uncertain |-> FALSE, unclear |-> FALSE,
     qmark |-> FALSE, realize |-> FALSE, reflecting |-> FALSE]

Clamp(lo, hi, x) == Max(lo, IF hi <= x THEN hi ELSE x)

RawConfidence(content) ==
    5 + (IF content.long THEN 2 ELSE 0)
      + (IF content.specifically \/ content.precisely THEN 1 ELSE 0)
      - (IF content.uncertain \/ content.unclear THEN 2 ELSE 0)

calculateConfidence_Percent(content) == RawConfidence(content) * Tenths

\* Math.max(0, Math.min(1, confidence))
calculateConfidence(content) == Clamp(0, Tenths, RawConfidence(content))

\* The confidence field of the AgentResponse processAgentResponse returns.
ResponseConfidence(reply) ==
    IF ~reply.message THEN 0
    ELSE calculateConfidence(IF reply.blank THEN EmptyResponseText ELSE reply)

\* The type field of the AgentResponse processAgentResponse returns.
ResponseType(reply, agent) ==
    IF ~reply.message THEN "response"
    ELSE determineResponseType(IF reply.blank THEN EmptyResponseText ELSE reply, agent)

\* processAgentResponse(apiResponse, agent, tools) is called and returns
ProcessReply ==
    /\ ~agentReply.called
    /\ \E agent \in Agents :
         agentReply' = [called |-> TRUE, agent |-> agent,
                        type |-> ResponseType(apiReply, agent),
                        confidence |-> ResponseConfidence(apiReply),
                        suggestedNextAgent |-> SuggestedNextAgent(agent)]
    /\ UNCHANGED <<loopVars, sseVars, apiReply, memVars, toolVars>>

InitConf ==
    /\ InitLoop /\ runs = <<>> /\ dbState = NoRow
    /\ apiReply \in ApiReplies
    /\ agentReply = [called |-> FALSE]
    /\ MemIdle
    /\ ToolIdle
    /\ SseIdle

NextConf == ProcessReply

SpecConf == InitConf /\ [][NextConf]_vars

\* ------------------------------------------- processAgentResponse: tool calls
MaxToolCalls == 2

\* initializeTools(): the names registered in this.tools
RegisteredTools == {"web_search", "memory_search", "memory_synthesis", "concept_lookup"}

\* the availableTools list of executeQuestioner and of executeExplorer
availableTools(agent) ==
    IF agent = "questioner" THEN {"memory_search", "concept_lookup"}
    ELSE {"memory_search", "memory_synthesis", "concept_lookup", "web_search"}

\* A tool call of the reply: the function name (one that is not registered
\* included) and whether JSON.parse accepts its arguments string.
ToolRequests ==
    [name : RegisteredTools \cup {"unregistered_tool"}, parses : BOOLEAN]

ToolCallLists == SeqsUpTo(ToolRequests, MaxToolCalls)

\* if (this.tools.has(toolName))
ToolAllowed(agent, toolName) == toolName \in RegisteredTools

\* The for loop over calls from its i-th call to the next await or to the
\* return: JSON.parse of the arguments (outside the try block) throws and
\* processAgentResponse rejects; a call that is not allowed is skipped; an
\* allowed one has its execute() awaited; after the last call the
\* AgentResponse is returned.
RECURSIVE ToolLoop(_, _, _)
ToolLoop(agent, calls, i) ==
    IF i > Len(calls) THEN [pc |-> "returned", next |-> 0]
    ELSE IF ~calls[i].parses THEN [pc |-> "rejected", next |-> i]
    ELSE IF ToolAllowed(agent, calls[i].name) THEN [pc |-> "executing", next |-> i]
    ELSE ToolLoop(agent, calls, i + 1)

\* processAgentResponse(apiResponse, agent, availableTools) is called with a
\* reply that carries tool calls
ToolTurnBegin ==
    /\ toolPc = "idle"
    /\ \E agent \in Agents, calls \in ToolCallLists :
         LET at == ToolLoop(agent, calls, 1)
         IN  /\ toolAgent' = agent
             /\ toolCalls' = calls
             /\ toolPc' = at.pc
             /\ toolNext' = at.next
    /\ UNCHANGED <<loopVars, sseVars, confVars, memVars, toolsUsed, toolDetails>>

\* execute() of the current tool resolves: toolsUsed and a toolDetails entry
\* with the result, then the loop goes on
ToolExecuted ==
    /\ toolPc = "executing"
    /\ toolsUsed' = Append(toolsUsed, toolCalls[toolNext].name)
    /\ toolDetails' = Append(toolDetails,
                             [tool |-> toolCalls[toolNext].name, error |-> FALSE])
    /\ LET at == ToolLoop(toolAgent, toolCalls, toolNext + 1)
       IN  toolPc' = at.pc /\ toolNext' = at.next
    /\ UNCHANGED <<loopVars, sseVars, confVars, memVars, toolAgent, toolCalls>>

\* execute() of the current tool rejects: caught, a toolDetails entry with
\* the error, then the loop goes on
ToolThrew ==
    /\ toolPc = "executing"
    /\ toolDetails' = Append(toolDetails,
                             [tool |-> toolCalls[toolNext].name, error |-> TRUE])
    /\ LET at == ToolLoop(toolAgent, toolCalls, toolNext + 1)
       IN  toolPc' = at.pc /\ toolNext' = at.next
    /\ UNCHANGED <<loopVars, sseVars, confVars, memVars, toolAgent, toolCalls, toolsUsed>>

\* ---------------------------------------------------- AdvancedMemoryManager
MaxCalls == 2
MaxLevel == 3
MaxLimit == 2

ConceptNames == {"qualia", "emergence"}
Levels == 1..MaxLevel
Significances == {"low", "medium", "high", "breakthrough"}
Collections == {"episodic", "semantic", "procedural"}

\* memoryTypes arguments: the default, one collection, and a list with a
\* type that is no collection
TypeLists ==
    {<<"episodic", "semantic", "procedural">>, <<"semantic">>, <<"working", "episodic">>}

\* Relevance is counted in hundredths: 50 is 0.5.
Hundredths == 100
FallbackRelevance == 50

\* The terms of extractTags that the context of the retrieve calls holds in
\* its current topic and in one of its focus areas.
TopicTerms == {"consciousness"}
FocusTerms == {"emergence"}

\* extractTags(exchange.content) of the exchanges stored
TagSets == {{}, {"consciousness"}}

\* What a similarity search returns for one collection: nothing, a point
\* without payload, or a point with payload (id, score, payload.tags, age,
\* payload.significance).
Hit(id, s, tags, hours, sig) ==
    [payload |-> TRUE, id |-> id, score |-> s, tags |-> tags,
     hoursSince |-> hours, significance |-> sig]

NoPayload ==
    [payload |-> FALSE, id |-> 0, score |-> 0, tags |-> {},
     hoursSince |-> 0, significance |-> "low"]

\* points that no store call of this model wrote (id 0)
SearchResults ==
    {<<>>, <<NoPayload>>, <<Hit(0, 30, {}, 24, "medium")>>,
     <<Hit(0, 90, {"consciousness"}, 0, "high")>>}

\* payload: {runId, agent, significance, depth, content, timestamp} of the
\* point storeEpisodicMemory upserts
EpisodicPayload(memory) ==
    [hasTags |-> FALSE, tags |-> {}, significance |-> memory.significance]

\* payload: {name, definition, explorationLevel, source} of the point
\* storeSemanticMemory upserts
SemanticPayload == [hasTags |-> FALSE, tags |-> {}, significance |-> "none"]

\* the score of a stored point against the query of the retrieve calls
StoredScore == 60

\* a stored point as a search result: tags is
\* Array.isArray(result.payload.tags) ? result.payload.tags : []
PointHit(point) ==
    Hit(point.id, StoredScore,
        IF point.payload.hasTags THEN point.payload.tags ELSE {},
        0, point.payload.significance)

calculateContextualRelevance(memory) ==
    LET base == memory.relevanceScore
        topic == IF memory.tags \cap TopicTerms # {} THEN 20 ELSE 0
        focus == IF memory.tags \cap FocusTerms # {} THEN 15 ELSE 0
        recency == IF memory.type = "episodic" THEN Max(0, 10 - memory.hoursSince) ELSE 0
        sig == IF memory.significance = "breakthrough" THEN 30
               ELSE IF memory.significance = "high" THEN 20
               ELSE IF memory.significance = "medium" THEN 10 ELSE 0
        score == base + topic + focus + recency + sig
    IN  IF score <= Hundredths THEN score ELSE Hundredths

\* memories.push({...}) for every result that has a payload
FoundMemories(type, results) ==
    LET kept == SelectSeq(results, LAMBDA r : r.payload)
    IN  [i \in 1..Len(kept) |->
            [source |-> "vector", id |-> kept[i].id, type |-> type,
             relevanceScore |-> kept[i].score, tags |-> kept[i].tags,
             hoursSince |-> kept[i].hoursSince, significance |-> kept[i].significance]]

RECURSIVE SortByRelevance_TiesReversed(_)
SortByRelevance_TiesReversed(ms) ==
    IF Len(ms) <= 1 THEN ms
    ELSE LET rest == SortByRelevance_TiesReversed(Tail(ms))
             m == Head(ms)
             before == SelectSeq(rest, LAMBDA x :
                          calculateContextualRelevance(x) >= calculateContextualRelevance(m))
             after == SelectSeq(rest, LAMBDA x :
                          calculateContextualRelevance(x) < calculateContextualRelevance(m))
         IN  before \o <<m>> \o after

\* Array.prototype.sort with (a, b) => score(b) - score(a): stable, descending
RECURSIVE SortByRelevance(_)
SortByRelevance(ms) ==
    IF Len(ms) <= 1 THEN ms
    ELSE LET rest == SortByRelevance(Tail(ms))
             m == Head(ms)
             before == SelectSeq(rest, LAMBDA x :
                          calculateContextualRelevance(x) > calculateContextualRelevance(m))
             after == SelectSeq(rest, LAMBDA x :
                          calculateContextualRelevance(x) <= calculateContextualRelevance(m))
         IN  before \o <<m>> \o after

Slice(seq, n) == IF Len(seq) > n THEN SubSeq(seq, 1, n) ELSE seq

Reverse(seq) == [i \in 1..Len(seq) |-> seq[Len(seq) + 1 - i]]

\* SELECT ... FROM memories WHERE type = ANY($1) AND content::text ILIKE $2
\* ORDER BY timestamp DESC LIMIT $3, each row mapped with relevanceScore 0.5
FallbackRows(rows, types, limit) ==
    LET hit == SelectSeq(rows, LAMBDA r :
                   r.matches /\ \E i \in 1..Len(types) : types[i] = r.type)
        latest == Slice(Reverse(hit), limit)
    IN  [i \in 1..Len(latest) |->
            [source |-> "sql", id |-> latest[i].id, type |-> latest[i].type,
             relevanceScore |-> FallbackRelevance]]

Upsert_Overwrite(old, new) == new

\* GREATEST(semantic_concepts.exploration_level, EXCLUDED.exploration_level)
Upsert(old, new) == Max(old, new)

\* INSERT INTO semantic_concepts ... ON CONFLICT (name) DO UPDATE SET ...
UpsertConcept(table, name, level) ==
    IF \E row \in table : row.name = name
    THEN {IF row.name = name THEN [row EXCEPT !.level = Upsert(@, level)] ELSE row :
            row \in table}
    ELSE table \cup {[name |-> name, level |-> level]}

CatchVectorError_Rethrows(op) == "rejected"

\* catch (error) { console.error(...) } around the embedding and the upsert
\* of storeEpisodicMemory and storeSemanticMemory: the call goes on
CatchVectorError(op) == "resolved"

\* the call in flight ends, resolved with a value or rejected
Return(outcome, value) ==
    /\ mmPc' = "idle"
    /\ mmResult' = [outcome |-> outcome, op |-> mmArgs.op, value |-> value]

\* --- storeSemanticMemory(concept, source)
StoreSemanticCall ==
    /\ mmPc = "idle" /\ mmCalls < MaxCalls
    /\ mmCalls' = mmCalls + 1
    /\ \E name \in ConceptNames, level \in Levels :
         mmArgs' = [op |-> "storeSemantic", name |-> name, level |-> level,
                    vector |-> "none"]
    /\ mmPc' = "conceptUpsert"
    /\ UNCHANGED <<loopVars, sseVars, confVars, toolVars, memories, concepts, points, levelsStored,
                   mmFound, mmResult>>

\* the upsert statement runs; the embedding of the concept is requested
ConceptUpserted ==
    /\ mmPc = "conceptUpsert"
    /\ concepts' = UpsertConcept(concepts, mmArgs.name, mmArgs.level)
    /\ levelsStored' =
         [n \in DOMAIN levelsStored \cup {mmArgs.name} |->
            IF n = mmArgs.name
            THEN (IF n \in DOMAIN levelsStored THEN levelsStored[n] ELSE {})
                    \cup {mmArgs.level}
            ELSE levelsStored[n]]
    /\ mmPc' = "embedding"
    /\ UNCHANGED <<loopVars, sseVars, confVars, toolVars, memories, points, mmCalls, mmArgs, mmFound,
                   mmResult>>

\* --- storeEpisodicMemory(runId, exchange, significance)
StoreEpisodicCall ==
    /\ mmPc = "idle" /\ mmCalls < MaxCalls
    /\ mmCalls' = mmCalls + 1
    /\ \E significance \in Significances, matches \in BOOLEAN, tags \in TagSets :
         mmArgs' = [op |-> "storeEpisodic", id |-> mmCalls + 1,
                    significance |-> significance, matches |-> matches,
                    tags |-> tags, vector |-> "none"]
    /\ mmPc' = "memoryInsert"
    /\ UNCHANGED <<loopVars, sseVars, confVars, toolVars, memories, concepts, points, levelsStored,
                   mmFound, mmResult>>

\* the INSERT INTO memories runs; a 'low' exchange gets no vector
MemoryInserted ==
    /\ mmPc = "memoryInsert"
    /\ memories' = Append(memories, [id |-> mmArgs.id, type |-> "episodic",
                                     matches |-> mmArgs.matches,
                                     tags |-> mmArgs.tags,
                                     significance |-> mmArgs.significance])
    /\ IF mmArgs.significance # "low"
       THEN mmPc' = "embedding" /\ UNCHANGED mmResult
       ELSE Return("resolved", <<>>)
    /\ UNCHANGED <<loopVars, sseVars, confVars, toolVars, concepts, points, levelsStored, mmCalls,
                   mmArgs, mmFound>>

\* the relational statement of either store call rejects: outside any try
RelationalFail ==
    /\ mmPc \in {"conceptUpsert", "memoryInsert"}
    /\ Return("rejected", <<>>)
    /\ UNCHANGED <<loopVars, sseVars, confVars, toolVars, memories, concepts, points, levelsStored,
                   mmCalls, mmArgs, mmFound>>

\* --- the vector side of both store calls, inside their try block
\* (mmArgs.vector records how it went: "stored", "unusable", "failed")
\* getEmbedding returns: a vector (the upsert is requested), or an empty or
\* absent one (logged, the call returns)
Embedded ==
    /\ mmPc = "embedding"
    /\ \E usable \in BOOLEAN :
         IF usable THEN mmPc' = "vectorUpsert" /\ UNCHANGED <<mmResult, mmArgs>>
         ELSE /\ Return("resolved", <<>>)
              /\ mmArgs' = [mmArgs EXCEPT !.vector = "unusable"]
    /\ UNCHANGED <<loopVars, sseVars, confVars, toolVars, memories, concepts, points, levelsStored,
                   mmCalls, mmFound>>

VectorUpserted ==
    /\ mmPc = "vectorUpsert"
    /\ points' = points \cup
         {IF mmArgs.op = "storeEpisodic"
          THEN [id |-> mmCalls, collection |-> "episodic",
                payload |-> EpisodicPayload(mmArgs)]
          ELSE [id |-> mmCalls, collection |-> "semantic",
                payload |-> SemanticPayload]}
    /\ mmArgs' = [mmArgs EXCEPT !.vector = "stored"]
    /\ Return("resolved", <<>>)
    /\ UNCHANGED <<loopVars, sseVars, confVars, toolVars, memories, concepts, levelsStored, mmCalls,
                   mmFound>>

\* getEmbedding or qdrant.upsert rejects
VectorFail ==
    /\ mmPc \in {"embedding", "vectorUpsert"}
    /\ mmArgs' = [mmArgs EXCEPT !.vector = "failed"]
    /\ Return(CatchVectorError(mmArgs.op), <<>>)
    /\ UNCHANGED <<loopVars, sseVars, confVars, toolVars, memories, concepts, points, levelsStored,
                   mmCalls, mmFound>>

\* --- retrieveRelevantMemories(query, context, memoryTypes, limit)
\* (mmArgs records the progress of the call: embedding is how getEmbedding
\* ended, searched and fellBack whether a similarity search and the fallback
\* query were requested)
RetrieveCall ==
    /\ mmPc = "idle" /\ mmCalls < MaxCalls
    /\ mmCalls' = mmCalls + 1
    /\ \E types \in TypeLists, limit \in 1..MaxLimit :
         mmArgs' = [op |-> "retrieve", types |-> types, limit |-> limit,
                    embedding |-> "pending", next |-> 1, searched |-> FALSE,
                    fellBack |-> FALSE]
    /\ mmFound' = <<>>
    /\ mmPc' = "queryEmbedding"
    /\ UNCHANGED <<loopVars, sseVars, confVars, toolVars, memories, concepts, points, levelsStored,
                   mmResult>>

\* The for loop from its i-th type to the next await: a type that is no
\* collection is skipped; a search is requested (the index of its type), or
\* the loop is over (0).
RECURSIVE NextSearch(_, _)
NextSearch(types, i) ==
    IF i > Len(types) THEN 0
    ELSE IF types[i] \in Collections THEN i
    ELSE NextSearch(types, i + 1)

\* After the loop: sort, slice; no memory found: the SQL fallback is
\* requested, else the sorted memories are returned.
AfterSearches(found) ==
    LET sortedMemories == Slice(SortByRelevance(found), mmArgs.limit)
    IN  IF Len(sortedMemories) = 0
        THEN /\ mmPc' = "fallback"
             /\ mmArgs' = [mmArgs EXCEPT !.next = 0, !.fellBack = TRUE,
                                         !.embedding = "ok"]
             /\ UNCHANGED mmResult
        ELSE /\ mmArgs' = [mmArgs EXCEPT !.next = 0, !.embedding = "ok"]
             /\ Return("resolved", sortedMemories)

\* The loop goes on from type i with the memories found so far.
SearchFrom(i, found) ==
    LET n == NextSearch(mmArgs.types, i)
    IN  /\ mmFound' = found
        /\ IF n > 0
           THEN /\ mmPc' = "search"
                /\ mmArgs' = [mmArgs EXCEPT !.next = n, !.searched = TRUE,
                                            !.embedding = "ok"]
                /\ UNCHANGED mmResult
           ELSE AfterSearches(found)

\* getEmbedding(query) returns a vector: the searches begin
QueryEmbedded ==
    /\ mmPc = "queryEmbedding"
    /\ SearchFrom(1, mmFound)
    /\ UNCHANGED <<loopVars, sseVars, confVars, toolVars, memories, concepts, points, levelsStored,
                   mmCalls>>

\* getEmbedding(query) returns an empty or absent vector: return []
QueryEmbeddingEmpty ==
    /\ mmPc = "queryEmbedding"
    /\ mmArgs' = [mmArgs EXCEPT !.embedding = "empty"]
    /\ Return("resolved", <<>>)
    /\ UNCHANGED <<loopVars, sseVars, confVars, toolVars, memories, concepts, points, levelsStored,
                   mmCalls, mmFound>>

\* openai.embeddings.create rejects (or the reply holds no data[0]): no try
\* block is around the await, retrieveRelevantMemories rejects
QueryEmbeddingFail ==
    /\ mmPc = "queryEmbedding"
    /\ mmArgs' = [mmArgs EXCEPT !.embedding = "error"]
    /\ Return("rejected", <<>>)
    /\ UNCHANGED <<loopVars, sseVars, confVars, toolVars, memories, concepts, points, levelsStored,
                   mmCalls, mmFound>>

\* qdrant.search of the current type returns
Searched ==
    /\ mmPc = "search"
    /\ \E results \in SearchResults :
         SearchFrom(mmArgs.next + 1,
                    mmFound \o FoundMemories(mmArgs.types[mmArgs.next], results))
    /\ UNCHANGED <<loopVars, sseVars, confVars, toolVars, memories, concepts, points, levelsStored,
                   mmCalls>>

\* qdrant.search of the current type returns a point a store call wrote
SearchedStored ==
    /\ mmPc = "search"
    /\ \E point \in points :
         /\ point.collection = mmArgs.types[mmArgs.next]
         /\ SearchFrom(mmArgs.next + 1,
                       mmFound \o FoundMemories(mmArgs.types[mmArgs.next],
                                                <<PointHit(point)>>))
    /\ UNCHANGED <<loopVars, sseVars, confVars, toolVars, memories, concepts, points, levelsStored,
                   mmCalls>>

\* qdrant.search rejects: caught inside the loop, on to the next type
SearchFail ==
    /\ mmPc = "search"
    /\ SearchFrom(mmArgs.next + 1, mmFound)
    /\ UNCHANGED <<loopVars, sseVars, confVars, toolVars, memories, concepts, points, levelsStored,
                   mmCalls>>

\* the fallback query returns its rows
FallbackReturned ==
    /\ mmPc = "fallback"
    /\ Return("resolved", FallbackRows(memories, mmArgs.types, mmArgs.limit))
    /\ UNCHANGED <<loopVars, sseVars, confVars, toolVars, memories, concepts, points, levelsStored,
                   mmCalls, mmArgs, mmFound>>

\* the fallback query rejects: caught, sortedMemories is still empty
FallbackFail ==
    /\ mmPc = "fallback"
    /\ Return("resolved", <<>>)
    /\ UNCHANGED <<loopVars, sseVars, confVars, toolVars, memories, concepts, points, levelsStored,
                   mmCalls, mmArgs, mmFound>>

\* --- synthesizeMemories(memories, currentContext) and the memory_synthesis tool
MaxElements == 2

\* An element of the array in a reply: null, or a value with the fields
\* significance ("none" when absent) and verified.
NullElement == [isNull |-> TRUE, significance |-> "none", verified |-> FALSE]

Elements ==
    {NullElement,
     [isNull |-> FALSE, significance |-> "high", verified |-> TRUE],
     [isNull |-> FALSE, significance |-> "none", verified |-> FALSE]}

\* The replies of the chat completion: no choice at all, a message without
\* content, prose, a JSON value that is no array, a JSON array.
SynthesisReply(choices, text, elems) ==
    [choices |-> choices, text |-> text, elems |-> elems]

SynthesisReplies ==
    {SynthesisReply(FALSE, "none", <<>>), SynthesisReply(TRUE, "absent", <<>>),
     SynthesisReply(TRUE, "prose", <<>>), SynthesisReply(TRUE, "object", <<>>)}
       \cup {SynthesisReply(TRUE, "array", elems) :
                elems \in SeqsUpTo(Elements, MaxElements)}

SynthesisInsight_TrustsReply(insight) ==
    [significance |-> IF insight.significance = "none" THEN "medium"
                      ELSE insight.significance,
     generatedBy |-> "synthesis", verified |-> insight.verified]

\* the object insights.map builds of one element
SynthesisInsight(insight) ==
    [significance |-> IF insight.significance = "none" THEN "medium"
                      ELSE insight.significance,
     generatedBy |-> "synthesis", verified |-> FALSE]

\* The try block: choices[0].message.content of a reply without choices,
\* JSON.parse of prose, .map of a value that is no array and .content of a
\* null element throw, and the catch returns []; absent content is '[]'.
ParseInsights(reply) ==
    IF ~reply.choices THEN <<>>
    ELSE IF reply.text = "absent" THEN <<>>
    ELSE IF reply.text # "array" THEN <<>>
    ELSE IF \E i \in 1..Len(reply.elems) : reply.elems[i].isNull THEN <<>>
    ELSE [i \in 1..Len(reply.elems) |-> SynthesisInsight(reply.elems[i])]

\* what the memory_synthesis tool returns without calling synthesizeMemories
NoMemoriesResult == [synthesis |-> "No memories provided for synthesis"]
NoValidMemoriesResult == [synthesis |-> "No valid memories found for synthesis"]
SynthesisErrorResult == [synthesis |-> "Error during memory synthesis"]

\* params.memories of a memory_synthesis call: absent or no array, an empty
\* array, an array of ids
SynthesisParams == {"absent", "empty", "ids"}

NoReply == SynthesisReply(FALSE, "pending", <<>>)

\* synthesizeMemories is called by itself: the chat completion is requested
SynthesizeCall ==
    /\ mmPc = "idle" /\ mmCalls < MaxCalls
    /\ mmCalls' = mmCalls + 1
    /\ mmArgs' = [op |-> "synthesize", via |-> "direct", params |-> "ids",
                  capability |-> "pending", reply |-> NoReply]
    /\ mmPc' = "synthesis"
    /\ UNCHANGED <<loopVars, sseVars, confVars, toolVars, memories, concepts, points, levelsStored,
                   mmFound, mmResult>>

\* execute(params) of the memory_synthesis tool up to its first await
SynthesisToolCall ==
    /\ mmPc = "idle" /\ mmCalls < MaxCalls
    /\ mmCalls' = mmCalls + 1
    /\ \E params \in SynthesisParams :
         /\ mmArgs' = [op |-> "synthesize", via |-> "tool", params |-> params,
                       capability |-> "none", reply |-> NoReply]
         /\ IF params # "ids"
            THEN mmPc' = "idle"
                 /\ mmResult' = [outcome |-> "resolved", op |-> "synthesize",
                                 value |-> NoMemoriesResult]
            ELSE mmPc' = "lookup" /\ UNCHANGED mmResult
    /\ UNCHANGED <<loopVars, sseVars, confVars, toolVars, memories, concepts, points, levelsStored,
                   mmFound>>

\* Promise.all of the getMemoryById calls settles (getMemoryById catches
\* every error and gives null): no memory is left, or synthesizeMemories
\* is called
MemoriesLookedUp ==
    /\ mmPc = "lookup"
    /\ \E anyValid \in BOOLEAN :
         IF anyValid
         THEN /\ mmPc' = "synthesis"
              /\ mmArgs' = [mmArgs EXCEPT !.capability = "pending"]
              /\ UNCHANGED mmResult
         ELSE /\ Return("resolved", NoValidMemoriesResult)
              /\ UNCHANGED mmArgs
    /\ UNCHANGED <<loopVars, sseVars, confVars, toolVars, memories, concepts, points, levelsStored,
                   mmCalls, mmFound>>

\* the chat completion of synthesizeMemories replies
SynthesisReplied ==
    /\ mmPc = "synthesis"
    /\ \E reply \in SynthesisReplies :
         /\ mmArgs' = [mmArgs EXCEPT !.capability = "replied", !.reply = reply]
         /\ Return("resolved", ParseInsights(reply))
    /\ UNCHANGED <<loopVars, sseVars, confVars, toolVars, memories, concepts, points, levelsStored,
                   mmCalls, mmFound>>

\* The chat completion rejects: the await is outside the try block of
\* synthesizeMemories; the tool's own catch turns it into a result.
CatchSynthesisError(via) == IF via = "tool" THEN "resolved" ELSE "rejected"

SynthesisFail ==
    /\ mmPc = "synthesis"
    /\ mmArgs' = [mmArgs EXCEPT !.capability = "failed"]
    /\ Return(CatchSynthesisError(mmArgs.via),
              IF mmArgs.via = "tool" THEN SynthesisErrorResult ELSE <<>>)
    /\ UNCHANGED <<loopVars, sseVars, confVars, toolVars, memories, concepts, points, levelsStored,
                   mmCalls, mmFound>>

\* ------------------------------------------------ GET /sse/messages (API)
MaxSseMessages == 2
MaxPolls == 2
MaxPollFires == 3

\* the callbacks of the interval that can be in flight at a time
Polls == 1..MaxPolls

\* a callback that is not running
NoPoll == [pc |-> "idle", after |-> 0]

\* SELECT id FROM runs WHERE status = 'running' ...: whether it can find a
\* running run (a run that has messages is there; else it may not be yet)
RunLookups == IF sseTable > 0 THEN {TRUE} ELSE BOOLEAN

\* SELECT ... FROM messages WHERE run_id = $1 AND id > $2 ORDER BY id ASC
MessagesAfter(table, after) == [i \in 1..(table - after) |-> after + i]

\* for (const message of rows) { write(message); lastMessageId = message.id }
WriteRows(rows) ==
    /\ sseWritten' = sseWritten \o rows
    /\ lastMessageId' = IF Len(rows) > 0 THEN rows[Len(rows)] ELSE lastMessageId

\* the worker inserts a message of the running run
MessageInserted ==
    /\ sseTable < MaxSseMessages
    /\ sseTable' = sseTable + 1
    /\ UNCHANGED <<loopVars, confVars, memVars, toolVars, ssePc, lastMessageId,
                   sseWritten, ssePolls, sseFires>>

\* a client connects: headers, lastMessageId = 0, the run lookup is sent
SseConnect ==
    /\ ssePc = "none"
    /\ ssePc' = "runLookup"
    /\ lastMessageId' = 0
    /\ UNCHANGED <<loopVars, confVars, memVars, toolVars, sseTable, sseWritten,
                   ssePolls, sseFires>>

\* the run lookup of the handler returns: a running run (its messages are
\* queried), or none (the interval is set)
SseRunLookedUp ==
    /\ ssePc = "runLookup"
    /\ \E running \in RunLookups :
         ssePc' = IF running THEN "initialQuery" ELSE "polling"
    /\ UNCHANGED <<loopVars, confVars, memVars, toolVars, sseTable, lastMessageId,
                   sseWritten, ssePolls, sseFires>>

\* the messages of the run return and are written; the interval is set
SseInitialSent ==
    /\ ssePc = "initialQuery"
    /\ WriteRows(MessagesAfter(sseTable, 0))
    /\ ssePc' = "polling"
    /\ UNCHANGED <<loopVars, confVars, memVars, toolVars, sseTable, ssePolls, sseFires>>

\* the interval fires: a callback starts and sends its run lookup
PollFire(p) ==
    /\ ssePc = "polling"
    /\ sseFires < MaxPollFires
    /\ ssePolls[p].pc = "idle"
    /\ sseFires' = sseFires + 1
    /\ ssePolls' = [ssePolls EXCEPT ![p] = [pc |-> "runCheck", after |-> 0]]
    /\ UNCHANGED <<loopVars, confVars, memVars, toolVars, sseTable, ssePc,
                   lastMessageId, sseWritten>>

\* the run lookup of a callback returns: with a running run the query for
\* the messages after lastMessageId (as it is now) is sent, else the
\* callback is over
PollRunChecked(p) ==
    /\ ssePolls[p].pc = "runCheck"
    /\ \E running \in RunLookups :
         ssePolls' = [ssePolls EXCEPT ![p] =
                        IF running THEN [pc |-> "query", after |-> lastMessageId]
                        ELSE NoPoll]
    /\ UNCHANGED <<loopVars, confVars, memVars, toolVars, sseTable, ssePc,
                   lastMessageId, sseWritten, sseFires>>

\* the query of a callback returns the rows after its parameter: each is
\* written and becomes lastMessageId
PollReturned(p) ==
    /\ ssePolls[p].pc = "query"
    /\ WriteRows(MessagesAfter(sseTable, ssePolls[p].after))
    /\ ssePolls' = [ssePolls EXCEPT ![p] = NoPoll]
    /\ UNCHANGED <<loopVars, confVars, memVars, toolVars, sseTable, ssePc, sseFires>>

\* a query of a callback rejects: catch (error) { console.error(...) }
PollFail(p) ==
    /\ ssePolls[p].pc \in {"runCheck", "query"}
    /\ ssePolls' = [ssePolls EXCEPT ![p] = NoPoll]
    /\ UNCHANGED <<loopVars, confVars, memVars, toolVars, sseTable, ssePc,
                   lastMessageId, sseWritten, sseFires>>

\* request.raw.on('close'): clearInterval; callbacks in flight go on
SseClose ==
    /\ ssePc = "polling"
    /\ ssePc' = "closed"
    /\ UNCHANGED <<loopVars, confVars, memVars, toolVars, sseTable, lastMessageId,
                   sseWritten, ssePolls, sseFires>>

\* ----------------------------------------------------------- specifications
LoopStep(l) ==
    \/ LoopExit(l)
    \/ LLMFail(l)
    \/ LLMRespond(l)
    \/ EpisodicStored(l)
    \/ EpisodicFail(l)
    \/ StoreExchangeDone(l)
    \/ StoreExchangeFail(l)
    \/ StoreStateDone(l)
    \/ StoreStateFail(l)
    \/ StoreInsightDone(l)
    \/ StoreInsightFail(l)

\* The program: main calls initialize() and start() once; signals shut it down.
Next ==
    \/ Initialize
    \/ InitializeFail
    \/ MainCatch
    \/ Start(1)
    \/ LoopContinue(1) /\ stepCount[1] < MaxSteps
    \/ LoopStep(1)
    \/ ShutdownSignal
    \/ ProcessExit

Spec == Init /\ [][Next]_vars

\* The class: start() and stop() called at any time after initialize() of a
\* new run, with every capability and store call succeeding.
InitApi == Init /\ dbState = NoRow

NextApi ==
    \/ Initialize
    \/ Stop
    \/ \E l \in Loops :
         \/ Start(l)
         \/ LoopContinue(l) /\ stepCount[l] < MaxApiSteps
         \/ LoopExit(l)
         \/ LLMRespond(l)
         \/ EpisodicStored(l)
         \/ StoreExchangeDone(l)
         \/ StoreStateDone(l)
         \/ StoreInsightDone(l)

SpecApi == InitApi /\ [][NextApi]_vars

\* One loop on a new run, long enough to reach the identity snapshots of the
\* 5th and 10th step and an 11th exchange; the dialogue steps succeed, the
\* snapshot capture can fail.
MaxSnapSteps == 11

NextSnap ==
    \/ Initialize
    \/ Start(1)
    \/ LoopContinue(1) /\ stepCount[1] < MaxSnapSteps
    \/ LLMRespond(1)
    \/ EpisodicStored(1)
    \/ StoreExchangeDone(1)
    \/ StoreStateDone(1)
    \/ StoreInsightDone(1)
    \/ SnapshotExchangesRead(1)
    \/ SnapshotPreviousRead(1)
    \/ SnapshotReadFail(1)
    \/ SnapshotAnalysed(1)
    \/ SnapshotCaught(1)
    \/ SnapshotInserted(1)

SpecSnap == InitApi /\ [][NextSnap]_vars

\* The program run, shut down and run again on the store it left; every
\* capability and store call succeeds.  A loop goes on to another iteration
\* while its run has fewer than MaxRunExchanges exchanges.
MaxRunExchanges == 2

NextResume ==
    \/ Initialize
    \/ Start(1)
    \/ LoopContinue(1) /\ runs[runId] + Len(dbExchanges) < MaxRunExchanges
    \/ LLMRespond(1)
    \/ EpisodicStored(1)
    \/ StoreExchangeDone(1)
    \/ StoreStateDone(1)
    \/ StoreInsightDone(1)
    \/ ShutdownSignal
    \/ ProcessExit
    \/ Restart

SpecResume == Init /\ [][NextResume]_vars

\* One loop on a new run for more than two stagnation intervals: the replies
\* carry no insight and raise the depth to MaxStuckDepth at most, every store
\* call succeeds and every snapshot analysis has content.
MaxStuckSteps == 101
MaxStuckDepth == 1

NextStuck ==
    \/ Initialize
    \/ Start(1)
    \/ LoopContinue(1) /\ stepCount[1] < MaxStuckSteps
    \/ /\ LLMRespond(1)
       /\ Len(currentState'.insights) = 0
       /\ currentState'.depth <= MaxStuckDepth
    \/ EpisodicStored(1)
    \/ StoreExchangeDone(1)
    \/ StoreStateDone(1)
    \/ SnapshotExchangesRead(1)
    \/ SnapshotPreviousRead(1)
    \/ SnapshotAnalysed(1) /\ pc'[1] = "snapInsert"
    \/ SnapshotInserted(1)

SpecStuck == InitApi /\ [][NextStuck]_vars

\* The program run to its first identity snapshot, shut down at any time and
\* run again on the store it left; the replies are those of SpecStuck and
\* every store call succeeds.
MaxCaptureSteps == 5

NextCapture ==
    \/ Initialize
    \/ Start(1)
    \/ LoopContinue(1) /\ stepCount[1] < MaxCaptureSteps
    \/ /\ LLMRespond(1)
       /\ Len(currentState'.insights) = 0
       /\ currentState'.depth <= MaxStuckDepth
    \/ EpisodicStored(1)
    \/ StoreExchangeDone(1)
    \/ StoreStateDone(1)
    \/ SnapshotExchangesRead(1)
    \/ SnapshotPreviousRead(1)
    \/ SnapshotAnalysed(1)
    \/ SnapshotInserted(1)
    \/ ShutdownSignal
    \/ ProcessExit
    \/ Restart

SpecCapture == InitApi /\ [][NextCapture]_vars

\* One /sse/messages connection, the interval callbacks and the inserts of
\* the worker, in any order.
InitSse ==
    /\ InitLoop /\ runs = <<>> /\ dbState = NoRow
    /\ ConfIdle
    /\ MemIdle
    /\ ToolIdle
    /\ sseTable = 0
    /\ ssePc = "none"
    /\ lastMessageId = 0
    /\ sseWritten = <<>>
    /\ ssePolls = [p \in Polls |-> NoPoll]
    /\ sseFires = 0

NextSse ==
    \/ MessageInserted
    \/ SseConnect
    \/ SseRunLookedUp
    \/ SseInitialSent
    \/ \E p \in Polls : PollFire(p)
    \/ \E p \in Polls : PollRunChecked(p)
    \/ \E p \in Polls : PollReturned(p)
    \/ \E p \in Polls : PollFail(p)
    \/ SseClose

SpecSse == InitSse /\ [][NextSse]_vars

\* initialize() on every runs table of the bounds.
InitRuns ==
    /\ InitLoop
    /\ runs \in RunTables
    /\ dbState \in (IF ResumesRun(runs) THEN SavedRows ELSE {NoRow})
    /\ ConfIdle
    /\ MemIdle
    /\ ToolIdle
    /\ SseIdle

NextRuns == Initialize

SpecRuns == InitRuns /\ [][NextRuns]_vars

\* One processAgentResponse call on a reply with tool calls.
InitTools ==
    /\ InitLoop /\ runs = <<>> /\ dbState = NoRow
    /\ ConfIdle
    /\ MemIdle
    /\ ToolIdle
    /\ SseIdle

NextTools ==
    \/ ToolTurnBegin
    \/ ToolExecuted
    \/ ToolThrew

SpecTools == InitTools /\ [][NextTools]_vars

\* The memory manager called by one caller, one call at a time.
InitMem ==
    /\ InitLoop /\ runs = <<>> /\ dbState = NoRow
    /\ ConfIdle
    /\ MemIdle
    /\ ToolIdle
    /\ SseIdle

NextMem ==
    \/ StoreSemanticCall
    \/ ConceptUpserted
    \/ StoreEpisodicCall
    \/ MemoryInserted
    \/ RelationalFail
    \/ Embedded
    \/ VectorUpserted
    \/ VectorFail
    \/ RetrieveCall
    \/ QueryEmbedded
    \/ QueryEmbeddingEmpty
    \/ QueryEmbeddingFail
    \/ Searched
    \/ SearchedStored
    \/ SearchFail
    \/ FallbackReturned
    \/ FallbackFail

SpecMem == InitMem /\ [][NextMem]_vars

\* synthesizeMemories called by itself and through the memory_synthesis tool
NextSynth ==
    \/ SynthesizeCall
    \/ SynthesisToolCall
    \/ MemoriesLookedUp
    \/ SynthesisReplied
    \/ SynthesisFail

SpecSynth == InitMem /\ [][NextSynth]_vars

\* ------------------------------------------------------------------ claims
\* a dialogue step of the loop is in flight: executeDialogueStep was called
\* and the iteration has neither finished nor reached the catch block
StepInFlight(l) == pc[l] \in {"llm", "episodic", "storeExchange", "storeState", "storeInsight"}

IterationBegins(l) == stepCount'[l] = stepCount[l] + 1

\* C1: an iteration that begins with depth >= 10 runs the new-thread
\* procedure before the step, and the orchestrator's depth is 0 when
\* executeDialogueStep is called.
C1_ResetBeforeStep ==
    [][\A l \in Loops :
         (IterationBegins(l) /\ currentState.depth >= 10)
            => (newThread'[l] /\ currentState'.depth = 0)]_vars

\* C2: the orchestrator's depth stays within 0..10 in every reachable state.
C2_DepthBounded == currentState.depth >= 0 /\ currentState.depth <= 10

\* C3: once three iterations in a row have failed the running flag is down,
\* the loop has ended (no further executeDialogueStep by that start() call)
\* and the run is still 'running', never marked completed.
C3_HaltAfterThreeErrors ==
    \A l \in Loops :
        failStreak[l] >= 3 => (~isRunning /\ pc[l] = "ended" /\ runStatus = "running")

C3_Witness == failStreak[1] = 3 /\ pc[1] = "ended" /\ stepCount[1] = 3

\* C4: a successful iteration leaves the consecutive-error counter at 0, and
\* a loop that ended without stop() being called has its three most recent
\* iterations failed.
C4_ResetOnSuccess ==
    \A l \in Loops :
        /\ pc[l] = "sleep" => consecutiveErrors[l] = 0
        /\ (pc[l] = "ended" /\ ~stopCalled) => failStreak[l] >= 3
        /\ (pc[l] = "errsleep") => (failStreak[l] < 3 /\ consecutiveErrors[l] = failStreak[l])

\* two failed iterations, then a successful one: the loop goes on
C4_Witness ==
    /\ pc[1] = "sleep" /\ stepCount[1] = 3 /\ Len(dbExchanges) = 1
    /\ consecutiveErrors[1] = 0 /\ isRunning

\* C5: after stop() (and no later start()) no further step begins, and the
\* step in flight is not interrupted: it completes or errs before the
\* process is gone.
C5_StopIsGraceful ==
    [][/\ (stopCalled /\ stopCalled') => \A l \in Loops : ~IterationBegins(l)
       /\ lifecycle' = "exited" => \A l \in Loops : ~StepInFlight(l)']_vars

\* C6: at most one stepping loop is active and at most one executeDialogueStep
\* is in flight, for every interleaving of start() and stop().
C6_SingleLoop ==
    /\ Cardinality({l \in Loops : pc[l] \notin {"idle", "ended"}}) <= 1
    /\ Cardinality({l \in Loops : pc[l] \in {"llm", "episodic"}}) <= 1

\* C7: without a valid suggestion the agent after the step is the opposite of
\* the one that took the turn; and every completed step hands the turn to the
\* opposite agent, questioner <-> explorer.
C7_AgentAlternates ==
    [][/\ \A a \in Agents : \A s \in {"synthesis", "undefined"} :
             NextAgent(a, s) = Opposite(a)
       /\ \A l \in Loops :
             (pc[l] = "llm" /\ pc'[l] = "episodic")
                => /\ currentState'.currentAgent = Opposite(turnAgent[l])
                   /\ currentState'.currentAgent # currentState.currentAgent]_vars

C7_Witness ==
    /\ pc[1] = "episodic" /\ stepCount[1] = 2
    /\ turnAgent[1] = "explorer" /\ currentState.currentAgent = "questioner"

\* C8: restoreState with a partial state of depth d leaves depth 0 when
\* d > 10 and d when d <= 10.
C8_RestoreClampsDepth ==
    (restored.exists /\ \A l \in Loops : stepCount[l] = 0)
        => currentState.depth = (IF restored.depth > 10 THEN 0 ELSE restored.depth)

C8_Witness ==
    /\ restored.exists /\ restored.depth = 37 /\ currentState.depth = 0
    /\ \A l \in Loops : stepCount[l] = 0

\* C9: after restoreState the required collections (insights, recentExchanges,
\* questionThread.subQuestions, questionThread.unexploredAspects) are non-null.
C9_CollectionsRestored ==
    lifecycle # "created" => currentState.questionThread.present

\* C10: what a caller writes into the value getCurrentState() returned, at top
\* level or nested, leaves the orchestrator's own DialogueState unchanged
\* (the writer is startNewQuestionThread).
C10_DefensiveCopy ==
    [][\A l \in Loops :
         (IterationBegins(l) /\ newThread'[l])
            => (currentState' = currentState /\ context' = context)]_vars

\* C11: the confidence of every AgentResponse processAgentResponse returns is
\* within [0, 1] (0..10 tenths), for every reply: long or not, with or
\* without precision and uncertainty words, blank, and without a message.
C11_ConfidenceInRange ==
    agentReply.called => (agentReply.confidence >= 0 /\ agentReply.confidence <= Tenths)

\* a short reply with uncertainty words gets 0.3, the lowest value
C11_Witness ==
    /\ agentReply.called /\ apiReply.message /\ ~apiReply.blank
    /\ apiReply.uncertain /\ ~apiReply.long /\ ~apiReply.specifically
    /\ ~apiReply.precisely /\ agentReply.confidence = 3

\* a retrieveRelevantMemories call has ended
Retrieved == mmPc = "idle" /\ mmArgs.op = "retrieve"

\* C12: a retrieveRelevantMemories call never throws, whichever of the
\* embedding call, a similarity search or the fallback query fails; and when
\* the searches gave no match it returns the rows of the substring fallback
\* (at most limit rows, most recent first, relevance 0.5) or an empty list.
C12_FallbackNeverThrows ==
    Retrieved =>
        /\ mmResult.outcome = "resolved"
        /\ mmArgs.fellBack =>
              /\ mmResult.value \in
                    {FallbackRows(memories, mmArgs.types, mmArgs.limit), <<>>}
              /\ Len(mmResult.value) <= mmArgs.limit

\* C13: when the embedding of the query fails (the call errs, or the vector
\* is empty or absent) retrieveRelevantMemories returns an empty list and
\* requests neither a similarity search nor the fallback query.
C13_EmbeddingFailureReturnsEmpty ==
    (Retrieved /\ mmArgs.embedding \in {"error", "empty"}) =>
        /\ mmResult.outcome = "resolved"
        /\ mmResult.value = <<>>
        /\ ~mmArgs.searched /\ ~mmArgs.fellBack

SetMax(S) == CHOOSE x \in S : \A y \in S : y <= x

\* C14: for every concept name the store ran an upsert for, semantic_concepts
\* holds exactly one row of that name, and its exploration level is the
\* largest level of those upserts (a lower level leaves it, a higher one
\* raises it).
C14_MaxMerge ==
    /\ {row.name : row \in concepts} = DOMAIN levelsStored
    /\ \A n \in DOMAIN levelsStored :
          /\ Cardinality({row \in concepts : row.name = n}) = 1
          /\ \A row \in concepts : row.name = n => row.level = SetMax(levelsStored[n])

\* a second upsert of "qualia" with level 1 after one with level 3
C14_Witness ==
    /\ mmArgs.op = "storeSemantic" /\ mmPc = "embedding" /\ mmCalls = 2
    /\ mmArgs.name = "qualia" /\ mmArgs.level = 1
    /\ [name |-> "qualia", level |-> 3] \in concepts

\* C15: once the INSERT of storeEpisodicMemory has run, the memory row stays
\* in the relational store and the call completes normally, whatever the
\* embedding call and the vector upsert do.
C15_RelationalAuthoritative ==
    (mmArgs.op = "storeEpisodic" /\ mmPc \in {"embedding", "vectorUpsert", "idle"}) =>
        LET inserted == \E i \in 1..Len(memories) : memories[i].id = mmArgs.id
        IN  /\ mmPc # "idle" => inserted
            /\ (mmPc = "idle" /\ inserted) => mmResult.outcome = "resolved"
            /\ (mmPc = "idle" /\ ~inserted) => mmResult.outcome = "rejected"

\* the vector side failed after the insert: the row is there, the call resolved
C15_Witness ==
    /\ mmArgs.op = "storeEpisodic" /\ mmPc = "idle" /\ mmArgs.vector = "failed"
    /\ mmResult.outcome = "resolved"
    /\ \E i \in 1..Len(memories) : memories[i].id = mmArgs.id

Range(seq) == {seq[i] : i \in 1..Len(seq)}

\* the iteration of the loop is over: it sleeps, or the loop has ended
IterationOver(l) == pc[l] \in {"sleep", "errsleep", "ended"}

\* C16: at the end of every iteration, each exchange executeDialogueStep
\* created and appended to recentExchanges has exactly one row in
\* dialogue_exchanges, whatever failed in the step or the stores.
C16_ExchangesPersisted ==
    (\A l \in Loops : pc[l] = "idle" \/ IterationOver(l)) =>
        \A e \in Range(context.recentExchanges) :
            Cardinality({i \in 1..Len(dbExchanges) : dbExchanges[i] = e}) = 1

\* C17: exchange rows are written in the order the exchanges are produced,
\* and the persisted DialogueState reflects every step whose exchange is
\* persisted, except at most the latest one: it is never more than one step
\* stale.
C17_StateAtMostOneStepStale ==
    /\ \A i \in 1..Len(dbExchanges) - 1 : dbExchanges[i] < dbExchanges[i + 1]
    /\ \A i \in 1..Len(dbExchanges) - 1 : dbExchanges[i] \in Range(dbState.workingMemory)

\* the capture of the identity snapshot is in progress
SnapshotInFlight(l) ==
    pc[l] \in {"snapExchanges", "snapPrevious", "snapAnalysis", "snapInsert"}

\* C18: whatever fails in the capture of an identity snapshot (the two
\* reads, the analysis call, the parse, the insert), the iteration goes on as
\* a successful one: the consecutive-error counter is not incremented and the
\* loop is not stopped.
C18_SnapshotFailureSkipped ==
    [][\A l \in Loops :
         SnapshotInFlight(l) =>
            /\ consecutiveErrors'[l] <= consecutiveErrors[l]
            /\ pc'[l] \notin {"errsleep", "ended"}]_vars

\* C19: from initialize() on the run's status is 'running' and its ended_at
\* is unset, through steps, errors, the error-threshold halt and stop().
C19_RunStaysRunning ==
    (lifecycle # "created" /\ initError = "none")
        => (runStatus = "running" /\ runEndedAt = "unset")

\* stop() was called, the loop left after a persisted step and
\* finalizeSession ran twice
C19_Witness ==
    /\ stopCalled /\ pc[1] = "ended" /\ ~selfHalted[1] /\ Len(dbExchanges) >= 1
    /\ runStatus = "running" /\ runEndedAt = "unset"

\* C20: initialize() resumes a run with the largest number of persisted
\* exchanges when some run has at least one (its id kept, no run created),
\* and creates a fresh run only when no run has any exchange.
C20_ResumesLargestRun ==
    [][(lifecycle = "created" /\ lifecycle' = "initialized") =>
         IF \E i \in 1..Len(runs) : runs[i] > 0
         THEN /\ runs' = runs
              /\ runId' \in 1..Len(runs)
              /\ \A j \in 1..Len(runs) : runs[j] <= runs[runId']
         ELSE /\ runs' = Append(runs, 0)
              /\ runId' = Len(runs) + 1]_vars

\* three runs with 1, 2 and 0 exchanges: the second is resumed
C20_Witness ==
    lifecycle = "initialized" /\ runs = <<1, 2, 0>> /\ runId = 2

\* C21: a process that initializes on a run an earlier process persisted
\* holds, before its first step, the id, currentAgent, phase and currentTopic
\* of the latest dialogue_states row of that run, and its depth when that
\* depth is at most 10.
C21_RestoreRoundTrip ==
    (Alive /\ restored.exists /\ pc[1] = "idle")
        => /\ currentState.id = dbState.id
           /\ currentState.currentAgent = dbState.currentAgent
           /\ currentState.phase = dbState.phase
           /\ context.currentTopic = dbState.currentTopic
           /\ (dbState.depth <= CorruptedDepth => currentState.depth = dbState.depth)

\* the second process has restored a row the first process wrote after it
\* opened a new thread on another topic
C21_Witness ==
    /\ processes = 2 /\ Alive /\ restored.exists /\ pc[1] = "idle"
    /\ dbState.id = 0
    /\ dbState.currentTopic # InitialTopic
    /\ context.currentTopic = dbState.currentTopic
    /\ currentState.currentAgent = "explorer"

\* C22: when a query of initialize() fails, initialize() rejects: the process
\* never reaches the initialized state, the running flag stays down and no
\* dialogue step runs.
C22_InitializeRejects ==
    initError # "none"
        => /\ lifecycle \in {"rejected", "exited"}
           /\ ~isRunning
           /\ nextExchange = 0
           /\ \A l \in Loops : pc[l] = "idle" /\ stepCount[l] = 0

\* the write of the initial state of a new run failed and main has exited
C22_Witness ==
    /\ initError = "stateWrite" /\ lifecycle = "exited"
    /\ runId # 0 /\ ~dbState.exists

\* C23: every successful iteration writes exactly the insights its step
\* produced, so after each iteration of a run whose stores all succeed the
\* insights rows are the insights produced so far, each written once, in
\* the order they were produced.
C23_InsightRowsAreNewInsights ==
    \A l \in Loops :
        pc[l] = "sleep"
            => dbInsights = [i \in 1..Len(currentState.insights) |-> i]

\* C24: every tool executed during a turn belongs to the tool set of the
\* agent of the turn, whatever names the reply requests.
C24_OnlyRoleTools ==
    \A i \in 1..Len(toolDetails) : toolDetails[i].tool \in availableTools(toolAgent)

\* C25: no tool call aborts the turn, and when processAgentResponse returns
\* every allowed tool the reply requested has been executed, in the order
\* requested, each with a toolDetails entry.
C25_ToolFailuresContained ==
    /\ toolPc # "rejected"
    /\ toolPc = "returned"
        => [i \in 1..Len(toolDetails) |-> toolDetails[i].tool]
             = LET asked == SelectSeq(toolCalls,
                               LAMBDA c : ToolAllowed(toolAgent, c.name))
               IN  [i \in 1..Len(asked) |-> asked[i].name]

\* C26: the type of the response to a reply with a text is "question" when
\* the text holds a '?', for either agent; else "insight" when the agent is
\* the explorer and the text holds realization phrasing; else "reflection"
\* when it holds reflective phrasing; else "response".  A questioner turn
\* never yields "insight".
C26_TypePrecedence ==
    (agentReply.called /\ apiReply.message /\ ~apiReply.blank)
        => LET t == agentReply.type
               explorerRealizes == agentReply.agent = "explorer" /\ apiReply.realize
           IN  /\ apiReply.qmark => t = "question"
               /\ (~apiReply.qmark /\ explorerRealizes) => t = "insight"
               /\ (~apiReply.qmark /\ ~explorerRealizes /\ apiReply.reflecting)
                     => t = "reflection"
               /\ (~apiReply.qmark /\ ~explorerRealizes /\ ~apiReply.reflecting)
                     => t = "response"
               /\ agentReply.agent = "questioner" => t # "insight"

\* an explorer reply with a '?' and realization phrasing is a question
C26_Witness ==
    /\ agentReply.called /\ agentReply.agent = "explorer"
    /\ apiReply.message /\ ~apiReply.blank
    /\ apiReply.qmark /\ apiReply.realize /\ apiReply.reflecting
    /\ agentReply.type = "question"

\* a dialogue step completes: updateStateFromResponse has returned
StepCompletes(l) == pc[l] = "llm" /\ pc'[l] = "episodic"

\* C27: after a completed step the phase is "synthesizing" when the step
\* produced a new insight, whatever the type of its exchange; else
\* "questioning" for a question, "responding" for a response and
\* "reflecting" for a reflection.
C27_InsightForcesSynthesizing ==
    [][\A l \in Loops :
         StepCompletes(l)
            => LET type == exchange'[l].type
               IN  IF Len(currentState'.insights) > Len(currentState.insights)
                   THEN currentState'.phase = "synthesizing"
                   ELSE /\ type = "question" => currentState'.phase = "questioning"
                        /\ type = "response" => currentState'.phase = "responding"
                        /\ type = "reflection" => currentState'.phase = "reflecting"]_vars

C29_RecentExchangesWindow ==
    LET recent == context.recentExchanges
    IN  /\ Len(recent) <= RecentExchangesCap
        /\ Len(recent) = (IF nextExchange <= RecentExchangesCap
                          THEN nextExchange ELSE RecentExchangesCap)
        /\ \A i \in 1..Len(recent) : recent[i] = nextExchange - Len(recent) + i

\* eleven exchanges were produced: the window holds the 2nd to the 11th
C29_Witness ==
    /\ nextExchange = 11
    /\ Len(context.recentExchanges) = 10
    /\ context.recentExchanges[1] = 2
    /\ context.recentExchanges[10] = 11

\* C30: when the new-thread procedure runs while the thread has unexplored
\* aspects, the orchestrator's topic afterwards is one of them and its
\* questionThread is a fresh thread: no subQuestions, depth 0, the fixed pool
\* as unexploredAspects.  When there is none the topic is a related concept
\* of one of the last 5 insights, or the default topic when they have none.
C30_NewThreadInstalled ==
    [][\A l \in Loops :
         (IterationBegins(l) /\ newThread'[l])
            => LET qt == currentState.questionThread
                   unexplored == IF qt.present THEN qt.unexploredAspects ELSE {}
                   recent == LastN(currentState.insights, RecentInsightsForTopic)
                   insightConcepts ==
                       UNION {recent[i].relatedConcepts : i \in 1..Len(recent)}
                   after == currentState'.questionThread
               IN  IF unexplored # {}
                   THEN /\ context'.currentTopic \in unexplored
                        /\ after.present
                        /\ after.subQuestions = 0
                        /\ after.depth = 0
                        /\ after.unexploredAspects = FixedPool
                   ELSE IF insightConcepts # {}
                   THEN context'.currentTopic \in insightConcepts
                   ELSE context'.currentTopic = DefaultTopic]_vars

\* C31: the stagnation guard runs the new-thread procedure in iteration n
\* exactly when n is a multiple of 50 above 50 and the depth is 0; the depth
\* of a loop never decreases, so a depth of 0 in iteration n has been 0 over
\* all the steps before it.  The guard never fires at step 50 or earlier and
\* never with a depth above 0.
C31_StagnationGuard ==
    [][/\ currentState'.depth >= currentState.depth
       /\ \A l \in Loops :
             IterationBegins(l)
                => LET n == stepCount'[l]
                       forced == newThread'[l] /\ currentState.depth < maxDepth
                   IN  /\ forced <=> (n % 50 = 0 /\ n > 50 /\ currentState.depth = 0)
                       /\ n <= 50 => ~forced
                       /\ currentState.depth > 0 => ~forced]_vars

\* iteration 100 of a loop whose depth is still 0: the guard has fired
C31_Witness ==
    /\ stepCount[1] = 100 /\ pc[1] = "llm" /\ newThread[1]
    /\ currentState.depth = 0
    /\ context.currentTopic \in InitialUnexplored

\* the place of the i-th candidate in the order of non-increasing contextual
\* relevance, candidates of equal relevance in retrieval order
C32_Rank(found, i) ==
    LET rel(j) == calculateContextualRelevance(found[j])
    IN  Cardinality({j \in 1..Len(found) : rel(j) > rel(i)})
           + Cardinality({j \in 1..(i - 1) : rel(j) = rel(i)}) + 1

\* C32: when the similarity searches found candidates, the memories returned
\* are the first `limit` of them in the order of non-increasing contextual
\* relevance, equal relevance in retrieval order; no call returns more than
\* `limit` memories or a memory whose type is no collection.
C32_TopLimitStable ==
    (Retrieved /\ mmResult.outcome = "resolved") =>
        LET out == mmResult.value
        IN  /\ Len(out) <= mmArgs.limit
            /\ \A k \in 1..Len(out) : out[k].type \in Collections
            /\ Len(mmFound) > 0 =>
                  /\ Len(out) = IF Len(mmFound) < mmArgs.limit
                                THEN Len(mmFound) ELSE mmArgs.limit
                  /\ \A k \in 1..Len(out) :
                        \E i \in 1..Len(mmFound) :
                           C32_Rank(mmFound, i) = k /\ out[k] = mmFound[i]
                  /\ \A k \in 1..(Len(out) - 1) :
                        calculateContextualRelevance(out[k])
                           >= calculateContextualRelevance(out[k + 1])

\* three candidates, the last two of equal relevance above the first: the
\* two are returned in retrieval order, the first is cut off by the limit
C32_Witness ==
    /\ Retrieved /\ mmResult.outcome = "resolved"
    /\ Len(mmFound) = 3 /\ mmArgs.limit = 2
    /\ calculateContextualRelevance(mmFound[1]) < calculateContextualRelevance(mmFound[2])
    /\ calculateContextualRelevance(mmFound[2]) = calculateContextualRelevance(mmFound[3])
    /\ mmResult.value = <<mmFound[2], mmFound[3]>>

\* the memory k of a resolved retrieve call came from the similarity search
\* and is an episodic memory that storeEpisodicMemory wrote
C38_RoundTripped(k) ==
    /\ Retrieved /\ mmResult.outcome = "resolved" /\ ~mmArgs.fellBack
    /\ k \in 1..Len(mmResult.value)
    /\ mmResult.value[k].type = "episodic"
    /\ \E i \in 1..Len(memories) : memories[i].id = mmResult.value[k].id

\* C38: an episodic memory written by storeEpisodicMemory and returned by
\* the similarity path of retrieveRelevantMemories has the id, the tags and
\* the significance it was stored with.
C38_RoundTrip ==
    \A k \in 1..MaxLimit :
        C38_RoundTripped(k) =>
            \E i \in 1..Len(memories) :
                /\ memories[i].id = mmResult.value[k].id
                /\ memories[i].tags = mmResult.value[k].tags
                /\ memories[i].significance = mmResult.value[k].significance

\* a synthesizeMemories or memory_synthesis call has ended
Synthesized == mmPc = "idle" /\ mmArgs.op = "synthesize"

\* the reply of the capability is a JSON array
C33_IsArray == mmArgs.capability = "replied" /\ mmArgs.reply.text = "array"

\* one Insight per element, generated by synthesis, unverified
C33_OnePerElement ==
    /\ Len(mmResult.value) = Len(mmArgs.reply.elems)
    /\ \A i \in 1..Len(mmResult.value) :
          /\ mmResult.value[i].generatedBy = "synthesis"
          /\ ~mmResult.value[i].verified

\* C33 as stated: an empty set when the reply is no parsable JSON array,
\* otherwise one Insight per array element, generated by synthesis and
\* unverified; a failed capability call ends a memory_synthesis call with a
\* result.
C33_OnePerArrayElement ==
    Synthesized =>
        /\ (mmArgs.capability = "replied" /\ ~C33_IsArray) => mmResult.value = <<>>
        /\ C33_IsArray => C33_OnePerElement
        /\ mmArgs.via = "tool" => mmResult.outcome = "resolved"

C33_HasNull == \E i \in 1..Len(mmArgs.reply.elems) : mmArgs.reply.elems[i].isNull

\* C33 (amended): an empty set when the reply is no parsable JSON array or
\* its array has a null element, otherwise one Insight per array element,
\* generated by synthesis and unverified whatever the element says; a
\* failed capability call ends a memory_synthesis call with a result.
C33_SynthesisParsing ==
    Synthesized =>
        /\ (mmArgs.capability = "replied" /\ (~C33_IsArray \/ C33_HasNull))
              => mmResult.value = <<>>
        /\ (C33_IsArray /\ ~C33_HasNull) => C33_OnePerElement
        /\ mmArgs.via = "tool" => mmResult.outcome = "resolved"

\* a tool call whose reply is an array of two elements, one claiming to be
\* verified: two unverified insights
C33_Witness ==
    /\ Synthesized /\ mmArgs.via = "tool" /\ C33_IsArray
    /\ Len(mmArgs.reply.elems) = 2 /\ mmArgs.reply.elems[1].verified
    /\ Len(mmResult.value) = 2 /\ ~mmResult.value[1].verified

\* the replies without a message or with blank text
C34_EmptyResponses == {r \in ApiResponses : ~r.message \/ r.blank}

C34_Placeholders == {NoResponseContent, EmptyResponseContent}

\* C34: a reply without a message or with blank text does not make
\* executeDialogueStep throw: the step goes on with an exchange whose content
\* is the placeholder error text, adds no insight, hands the turn to the
\* other agent and leaves the error count alone; the iteration that ends
\* with such an exchange ends with an error count of 0.
C34_EmptyReplyIsNoError ==
    [][\A l \in Loops :
          /\ \A r \in C34_EmptyResponses :
                LLMResponds(l, r) =>
                   /\ pc'[l] = "episodic"
                   /\ exchange'[l].content \in C34_Placeholders
                   /\ exchange'[l].content =
                         (IF r.message THEN EmptyResponseContent ELSE NoResponseContent)
                   /\ currentState'.insights = currentState.insights
                   /\ currentState'.currentAgent # turnAgent[l]
                   /\ consecutiveErrors' = consecutiveErrors
          /\ (pc[l] # "sleep" /\ pc'[l] = "sleep"
                 /\ exchange[l].content \in C34_Placeholders)
                => consecutiveErrors'[l] = 0]_vars

\* after an iteration that failed, the step of the second iteration got a
\* blank reply and returned its exchange: the stores are under way and the
\* error count is still 1
C34_Witness ==
    /\ pc[1] = "storeState" /\ stepCount[1] = 2
    /\ exchange[1].content = EmptyResponseContent
    /\ exchange[1].type = "response"
    /\ consecutiveErrors[1] = 1

\* executeDialogueStep of loop l throws in this step
C35_StepThrows(l) == pc[l] \in {"llm", "episodic"} /\ pc'[l] \in {"errsleep", "ended"}

\* C35: when executeDialogueStep throws, the DialogueState is what it was
\* when the step was called: the agent whose turn it was is still the
\* current agent (it takes the retried step), and no exchange, insight or
\* sub-question of the failed step is in the state.
C35_ThrowLeavesStateUntouched ==
    [][\A l \in Loops :
          C35_StepThrows(l) =>
             /\ currentState'.currentAgent = turnAgent[l]
             /\ exchange[l].id # 0 =>
                   exchange[l].id \notin Range(context'.recentExchanges)]_vars

\* the loop runs the new-thread procedure in this step
C36_NewThreadOperation == \E l \in Loops : IterationBegins(l) /\ newThread'[l]

\* C36: after every step of a run that began with the initial state, the
\* depth high-water mark of the question thread is at least the depth of
\* the DialogueState, and no step other than a new-thread operation lowers
\* the mark.
C36_ThreadDepthHighWater ==
    [][/\ currentState'.questionThread.depth >= currentState'.depth
       /\ ~C36_NewThreadOperation
             => currentState'.questionThread.depth >= currentState.questionThread.depth]_vars

\* two long questions and a short one at depth 2: the mark is 3, the depth 2
C36_Witness ==
    /\ currentState.depth = 2
    /\ currentState.questionThread.depth = 3
    /\ currentState.questionThread.subQuestions = 3

\* C37: a run never has a second dialogue_states row: whenever the run
\* resumed has a row, the state id of the process is the id of that row, and
\* every write of a state row while one exists has the id of the row that
\* exists (the upsert updates it), before and after a restore.
C37_OneStateRowPerRun ==
    [][/\ (dbState.exists /\ dbState'.exists) => dbState'.id = dbState.id
       /\ \A l \in Loops :
             (stateParams'[l].exists /\ dbState'.exists)
                => stateParams'[l].id = dbState'.id]_vars

\* the second process restored the row of the first and has written the
\* state of a step of its own to it
C37_Witness ==
    /\ processes = 2 /\ restored.exists
    /\ stepCount[1] = 1 /\ pc[1] = "sleep"
    /\ dbState.exists /\ dbState.id = restored.id
    /\ dbState.id # processes
    /\ Len(dbState.workingMemory) > 0

\* C39: the identity snapshots of a run are persisted with strictly
\* increasing iteration numbers, across a shutdown and restart too, so the
\* row with the highest iteration is the one captured last.
C39_SnapshotIterationsIncrease ==
    \A i \in 1..Len(dbSnapshots) : \A j \in 1..Len(dbSnapshots) :
        i < j => dbSnapshots[i] < dbSnapshots[j]

\* C40: on one /sse/messages connection every message is written to the
\* client at most once and in increasing id order, however the polling
\* callbacks and the inserts interleave.
C40_WrittenOnceInOrder ==
    \A i \in 1..Len(sseWritten) : \A j \in 1..Len(sseWritten) :
        i < j => sseWritten[i] < sseWritten[j]

====
